---- MODULE Spec2Model ----
(***************************************************************************)
(* Hydroponic monitoring dashboard (src/app.py): the data cleaning and     *)
(* aggregation pipeline, the synthetic projector, the threshold alerts and *)
(* the two reactive callbacks, as a state machine.                         *)
(*                                                                         *)
(* Real numbers are exact rationals [num, den] with den > 0.  den = 0 is   *)
(* the float NaN (a missing numeric cell, or the mean of no values) and    *)
(* den < 0 is pd.NA (an empty string of the JSON, line 36).                *)
(***************************************************************************)
EXTENDS Integers, Sequences, FiniteSets, TLC

VARIABLES
    plant_growth,          \* cleaned growth rows (lines 41-47, 58)
    plant_harvest,         \* cleaned harvest rows (lines 41-48)
    unit_measurements,     \* raw measurement rows (line 41)
    sun_data,              \* sun rows, daylight in decimal hours (lines 50-52)
    unit_parameters,       \* the unit's parameter row (line 41)
    plant_growth_summary,  \* growth rows grouped by date (line 60)
    alerts,                \* the six cards of the Alert Center (lines 898-916)
    probe,                 \* the last band evaluation on a drawn aggregate value
    rng,                   \* the state of numpy's global random generator
    tab,                   \* dcc.Tabs "tabs".value
    selector,              \* dcc.Dropdown "plant-selector".value
    pending,               \* callbacks the renderer still has to run
    view,                  \* the outputs of update_growth_and_layout
    series,                \* the frame df the last date grouping of a selection produced
    callback_error,        \* the exception of the last callback run, "" when it returned
    projection,            \* the last result of a direct extend_growth_data call
    unit_measurements_chart,  \* the measurement rows the charts are drawn from (line 55)
    responses,             \* what the backend answers to the five requests of startup
    startup                \* how far the module-level code has run, and what it raised

data == <<plant_growth, plant_harvest, unit_measurements, sun_data, unit_parameters,
          plant_growth_summary, unit_measurements_chart, responses, startup>>
ui == <<tab, selector, pending, view, series, callback_error>>
vars == <<plant_growth, plant_harvest, unit_measurements, sun_data, unit_parameters,
          plant_growth_summary, alerts, probe, rng, tab, selector, pending, view,
          series, callback_error, projection, unit_measurements_chart, responses,
          startup>>

----------------------------------------------------------------------------
(* Numbers *)

Abs(n) == IF n < 0 THEN -n ELSE n

RECURSIVE GCD(_, _)
GCD(a, b) == IF b = 0 THEN a ELSE GCD(b, a % b)

Q(n, d) == [num |-> n, den |-> d]
NaN == Q(0, 0)
NA == Q(0, -1)
IsNaN(q) == q.den = 0
IsNA(q) == q.den < 0
IsReal(q) == q.den > 0

\* lowest terms, so that equal numbers are equal records
Norm(q) ==
    IF ~IsReal(q) THEN q
    ELSE LET g == GCD(Abs(q.num), q.den) IN Q(q.num \div g, q.den \div g)

\* float arithmetic and comparison: NaN propagates, a comparison with NaN is False
Add(a, b) ==
    IF IsReal(a) /\ IsReal(b) THEN Norm(Q(a.num * b.den + b.num * a.den, a.den * b.den))
    ELSE NaN
DivInt(a, n) == IF IsReal(a) /\ n > 0 THEN Norm(Q(a.num, a.den * n)) ELSE NaN
Lt(a, b) == IsReal(a) /\ IsReal(b) /\ a.num * b.den < b.num * a.den
Gt(a, b) == Lt(b, a)
Le(a, b) == IsReal(a) /\ IsReal(b) /\ a.num * b.den <= b.num * a.den
Ge(a, b) == Le(b, a)

\* Python's builtin min(a, b): b only when b < a
PyMin(a, b) == IF Lt(b, a) THEN b ELSE a

RECURSIVE SumQ(_)
SumQ(s) == IF s = <<>> THEN Q(0, 1) ELSE Add(Head(s), SumQ(Tail(s)))

IsPresent(c) == IsReal(c)

\* a mean that divides by the number of cells, missing ones included
Mean_over_all_cells(cells) ==
    LET present == SelectSeq(cells, IsPresent)
    IN IF Len(present) = 0 THEN NaN ELSE DivInt(SumQ(present), Len(cells))

\* Series.mean(): missing cells are skipped, the mean of no values is NaN
Mean(cells) ==
    LET present == SelectSeq(cells, IsPresent)
    IN IF Len(present) = 0 THEN NaN ELSE DivInt(SumQ(present), Len(present))

Column(df, col) == [i \in 1..Len(df) |-> df[i][col]]

----------------------------------------------------------------------------
(* Alert cards (Threshold Evaluator) *)

\* get_alert_card: the card's content; value is the number the top message embeds
get_alert_card(icon, title, message_top, value, message_bottom, color) ==
    [icon |-> icon, title |-> title, message_top |-> message_top, value |-> value,
     message_bottom |-> message_bottom, color |-> color, raised |-> ""]

\* an insight function that raised instead of returning a card
Raised(exc) ==
    [icon |-> "", title |-> "", message_top |-> "", value |-> NaN,
     message_bottom |-> "", color |-> "", raised |-> exc]

\* yield_insight with "<=" for "<" in its first test
yield_insight_le(avg_yield) ==
    IF Le(avg_yield, Q(30, 1)) THEN
        get_alert_card("mdi:barley", "Yield: Critical", "", avg_yield, "", "#dc3545")
    ELSE IF Lt(avg_yield, Q(50, 1)) THEN
        get_alert_card("mdi:barley", "Yield: Warning", "", avg_yield, "", "#e0a800")
    ELSE
        get_alert_card("mdi:barley", "Yield: Normal", "", avg_yield, "", "#28a745")

yield_insight(avg_yield) ==
    IF Lt(avg_yield, Q(30, 1)) THEN
        get_alert_card("mdi:barley", "Yield: Critical",
            "Yield is well below the optimal 50g+ range. Current: {:.1f}g.", avg_yield,
            "Improve nutrient delivery, verify EC and pH levels, and increase lighting exposure.",
            "#dc3545")
    ELSE IF Lt(avg_yield, Q(50, 1)) THEN
        get_alert_card("mdi:barley", "Yield: Warning",
            "Yield is slightly under the expected threshold of 50g+. Current: {:.1f}g.", avg_yield,
            "Consider adjusting nutrients, lighting duration, and irrigation strategy.",
            "#e0a800")
    ELSE
        get_alert_card("mdi:barley", "Yield: Normal",
            "Yield is within the optimal range (50g+). Current: {:.1f}g.", avg_yield,
            "Maintain your current growing conditions and keep monitoring regularly.",
            "#28a745")

get_yield_insight == yield_insight(Mean(Column(plant_harvest, "Yield")))

\* ph_insight with ">=" for ">" in its alkaline test
ph_insight_ge(avg_ph) ==
    IF Lt(avg_ph, Q(52, 10)) \/ Ge(avg_ph, Q(68, 10)) THEN
        get_alert_card("mdi:scale-balance", "pH: Critical", "", avg_ph, "", "#dc3545")
    ELSE IF Lt(avg_ph, Q(55, 10)) \/ Gt(avg_ph, Q(65, 10)) THEN
        get_alert_card("mdi:scale-balance", "pH: Warning", "", avg_ph, "", "#e0a800")
    ELSE
        get_alert_card("mdi:scale-balance", "pH: Normal", "", avg_ph, "", "#28a745")

ph_insight(avg_ph) ==
    IF Lt(avg_ph, Q(52, 10)) THEN
        get_alert_card("mdi:scale-balance", "pH: Critical",
            "pH is too acidic. Optimal range: 5.5-6.5. Current: {:.2f}.", avg_ph,
            "Apply a base solution to raise pH and prevent root damage.",
            "#dc3545")
    ELSE IF Gt(avg_ph, Q(68, 10)) THEN
        get_alert_card("mdi:scale-balance", "pH: Critical",
            "pH is too alkaline. Optimal range: 5.5-6.5. Current: {:.2f}.", avg_ph,
            "Use a mild acid like phosphoric acid to bring the pH down gradually.",
            "#dc3545")
    ELSE IF Lt(avg_ph, Q(55, 10)) \/ Gt(avg_ph, Q(65, 10)) THEN
        get_alert_card("mdi:scale-balance", "pH: Warning",
            "pH is slightly outside the target range of 5.5-6.5. Current: {:.2f}.", avg_ph,
            "Stabilize with pH adjusters and monitor levels over the next few days.",
            "#e0a800")
    ELSE
        get_alert_card("mdi:scale-balance", "pH: Normal",
            "pH is in the ideal range (5.5-6.5). Current: {:.2f}.", avg_ph,
            "No adjustments needed-continue current monitoring routine.",
            "#28a745")

get_ph_insight == ph_insight(Mean(Column(unit_measurements, "pH")))

\* ec_insight with the Warning test before the upper Critical test
ec_insight_reordered(avg_ec) ==
    IF Lt(avg_ec, Q(7, 10)) THEN
        get_alert_card("mdi:water-percent", "EC: Critical", "", avg_ec, "", "#dc3545")
    ELSE IF Lt(avg_ec, Q(1, 1)) \/ Gt(avg_ec, Q(2, 1)) THEN
        get_alert_card("mdi:water-percent", "EC: Warning", "", avg_ec, "", "#e0a800")
    ELSE IF Gt(avg_ec, Q(25, 10)) THEN
        get_alert_card("mdi:water-percent", "EC: Critical", "", avg_ec, "", "#dc3545")
    ELSE
        get_alert_card("mdi:water-percent", "EC: Normal", "", avg_ec, "", "#28a745")

ec_insight(avg_ec) ==
    IF Lt(avg_ec, Q(7, 10)) THEN
        get_alert_card("mdi:water-percent", "EC: Critical",
            "Electrical conductivity is far below the optimal range (1.0-2.0 S/m). Current: {:.2f}.",
            avg_ec,
            "Add more nutrients to enrich the solution and support plant growth.",
            "#dc3545")
    ELSE IF Gt(avg_ec, Q(25, 10)) THEN
        get_alert_card("mdi:water-percent", "EC: Critical",
            "Electrical conductivity is too high. Target range is 1.0-2.0 S/m. Current: {:.2f}.",
            avg_ec,
            "Dilute with fresh water or flush the system to reduce salt buildup.",
            "#dc3545")
    ELSE IF Lt(avg_ec, Q(1, 1)) \/ Gt(avg_ec, Q(2, 1)) THEN
        get_alert_card("mdi:water-percent", "EC: Warning",
            "EC is slightly outside the optimal range (1.0-2.0 S/m). Current: {:.2f}.", avg_ec,
            "Fine-tune the nutrient mix and recheck levels after the next feeding.",
            "#e0a800")
    ELSE
        get_alert_card("mdi:water-percent", "EC: Normal",
            "Electrical conductivity is stable and within the 1.0-2.0 S/m range. Current: {:.2f}.",
            avg_ec,
            "Maintain consistent feeding schedule and check weekly.",
            "#28a745")

\* get_ec_insight that classifies the mean of the loaded EC column
get_ec_insight_live == ec_insight(Mean(Column(unit_measurements, "EC")))

\* avg_ec = 3.33  # Hardcoded mS/cm
get_ec_insight == ec_insight(Q(333, 100))

light_insight(total_light) ==
    IF Lt(total_light, Q(6, 1)) THEN
        get_alert_card("mdi:white-balance-sunny", "Light: Critical",
            "Total light exposure is too low. Minimum required: 6 hours/day. Current: {:.1f} hrs.",
            total_light,
            "Increase artificial lighting or reposition plants for more sun.",
            "#dc3545")
    ELSE
        get_alert_card("mdi:white-balance-sunny", "Light: Normal",
            "Total light exposure exceeds the 6-hour minimum. Current: {:.1f} hrs.", total_light,
            "Light availability is sufficient-no changes needed at this time.",
            "#28a745")

\* total_light without the cap
total_light_uncapped(avg_natural, artificial) == Add(avg_natural, artificial)

\* total_light = min(avg_natural + artificial, 24)
total_light_of(avg_natural, artificial) == PyMin(Add(avg_natural, artificial), Q(24, 1))

\* float(pd.NA) raises TypeError; float(nan) is nan
get_light_insight ==
    LET avg_natural == Mean(Column(sun_data, "HoursOfDaylight"))
        cell == unit_parameters[1].ArtificialLight
    IN IF IsNA(cell) THEN Raised("TypeError")
       ELSE light_insight(total_light_of(avg_natural, cell))

\* leaf_size_insight with "<=" for "<" in its second test
leaf_size_insight_le(avg_leaf_size) ==
    IF Lt(avg_leaf_size, Q(2, 1)) THEN
        get_alert_card("mdi:leaf", "Leaf Size: Critical", "", avg_leaf_size, "", "#dc3545")
    ELSE IF Le(avg_leaf_size, Q(3, 1)) THEN
        get_alert_card("mdi:leaf", "Leaf Size: Warning", "", avg_leaf_size, "", "#e0a800")
    ELSE
        get_alert_card("mdi:leaf", "Leaf Size: Normal", "", avg_leaf_size, "", "#28a745")

leaf_size_insight(avg_leaf_size) ==
    IF Lt(avg_leaf_size, Q(2, 1)) THEN
        get_alert_card("mdi:leaf", "Leaf Size: Critical",
            "Leaf size is far below the optimal threshold (3+ inches). Current: {:.1f}in.",
            avg_leaf_size,
            "Apply micronutrients and improve airflow and humidity control.",
            "#dc3545")
    ELSE IF Lt(avg_leaf_size, Q(3, 1)) THEN
        get_alert_card("mdi:leaf", "Leaf Size: Warning",
            "Leaf size is slightly under the 3-inch target. Current: {:.1f}in.", avg_leaf_size,
            "Review nutrient balance and increase light intensity if needed.",
            "#e0a800")
    ELSE
        get_alert_card("mdi:leaf", "Leaf Size: Normal",
            "Average leaf size meets the optimal 3-inch threshold. Current: {:.1f}in.",
            avg_leaf_size,
            "Continue current growth strategy and monitor leaf expansion.",
            "#28a745")

get_leaf_size_insight == leaf_size_insight(Mean(Column(plant_growth, "Leaf")))

\* brix_insight whose last branch is an elif on "> 8": it returns no card at 8
brix_insight_gap(avg_brix) ==
    IF Lt(avg_brix, Q(6, 1)) THEN
        get_alert_card("mdi:fruit-grapes", "Brix Score: Critical", "", avg_brix, "", "#dc3545")
    ELSE IF Lt(avg_brix, Q(8, 1)) THEN
        get_alert_card("mdi:fruit-grapes", "Brix Score: Warning", "", avg_brix, "", "#e0a800")
    ELSE IF Gt(avg_brix, Q(8, 1)) THEN
        get_alert_card("mdi:fruit-grapes", "Brix Score: Normal", "", avg_brix, "", "#28a745")
    ELSE Raised("TypeError")

brix_insight(avg_brix) ==
    IF Lt(avg_brix, Q(6, 1)) THEN
        get_alert_card("mdi:fruit-grapes", "Brix Score: Critical",
            "Brix value is below ideal levels. Goal is 8+ for high-quality produce. Current: {:.1f}.",
            avg_brix,
            "Increase potassium uptake and optimize ripening conditions.",
            "#dc3545")
    ELSE IF Lt(avg_brix, Q(8, 1)) THEN
        get_alert_card("mdi:fruit-grapes", "Brix Score: Warning",
            "Brix score is approaching optimal but not quite there. Current: {:.1f}.", avg_brix,
            "Improve nutrient timing and boost light exposure during fruit development.",
            "#e0a800")
    ELSE
        get_alert_card("mdi:fruit-grapes", "Brix Score: Normal",
            "Brix score is at or above target levels (8+). Current: {:.1f}.", avg_brix,
            "Maintain your current practices to preserve sweetness and quality.",
            "#28a745")

get_brix_insight == brix_insight(Mean(Column(plant_harvest, "Brix")))

\* the Alert Center of app.layout: the six cards, evaluated when the layout is built
AlertCenter ==
    [yield |-> get_yield_insight, ph |-> get_ph_insight, ec |-> get_ec_insight,
     light |-> get_light_insight, leaf |-> get_leaf_size_insight, brix |-> get_brix_insight]

Metrics == {"yield", "ph", "ec", "light", "leaf", "brix"}

\* the band logic of one metric on a given aggregate value
Insight(metric, v) ==
    CASE metric = "yield" -> yield_insight(v)
      [] metric = "ph" -> ph_insight(v)
      [] metric = "ec" -> ec_insight(v)
      [] metric = "light" -> light_insight(v)
      [] metric = "leaf" -> leaf_size_insight(v)
      [] metric = "brix" -> brix_insight(v)

\* the severity tier a card shows: the word after the colon of its title
Severity(card) ==
    IF card.title \in {"Yield: Critical", "pH: Critical", "EC: Critical", "Light: Critical",
                       "Leaf Size: Critical", "Brix Score: Critical"} THEN "Critical"
    ELSE IF card.title \in {"Yield: Warning", "pH: Warning", "EC: Warning",
                            "Leaf Size: Warning", "Brix Score: Warning"} THEN "Warning"
    ELSE IF card.title \in {"Yield: Normal", "pH: Normal", "EC: Normal", "Light: Normal",
                            "Leaf Size: Normal", "Brix Score: Normal"} THEN "Normal"
    ELSE "none"

----------------------------------------------------------------------------
(* Cleaner / Normalizer *)

\* pd.NaT, the missing date; real dates are day numbers >= 1
NaT == -1

\* pd.to_datetime(..., errors="coerce") on the date strings of the sample data:
\* a date written year first or month first parses to its day number, anything
\* else to NaT
to_datetime(s) ==
    CASE s = "2025-03-01" -> 1
      [] s = "2025-03-02" -> 2
      [] s = "2025-03-03" -> 3
      [] s = "2025-03-04" -> 4
      [] s = "2025-03-10" -> 10
      [] s = "3/9/2025" -> 9
      [] s = "3/10/2025" -> 10
      [] OTHER -> NaT

Digit(d) ==
    CASE d = 0 -> "0" [] d = 1 -> "1" [] d = 2 -> "2" [] d = 3 -> "3" [] d = 4 -> "4"
      [] d = 5 -> "5" [] d = 6 -> "6" [] d = 7 -> "7" [] d = 8 -> "8" [] d = 9 -> "9"

\* str(n) of an integer: its decimal digits
RECURSIVE AsStr(_)
AsStr(n) ==
    IF n < 0 THEN "-" \o AsStr(-n)
    ELSE IF n < 10 THEN Digit(n)
    ELSE AsStr(n \div 10) \o Digit(n % 10)

\* the dtype pandas gives the Level column of a fetched frame: a column of whole
\* numbers is int64, a null cell (NaN) makes it float64, and a cell that was the
\* empty string (pd.NA after the replace of line 36) makes it an object column
LevelDtype(raw) ==
    IF \E i \in 1..Len(raw) : IsNA(raw[i].Level) THEN "object"
    ELSE IF \E i \in 1..Len(raw) : IsNaN(raw[i].Level) \/ raw[i].Level.den # 1 THEN "float64"
    ELSE "int64"

\* one cell of df["Level"].astype(str), for the whole-number levels of the sample
\* data: 1 is "1" in an int64 or object column and "1.0" in a float64 column
astype_str(cell, dtype) ==
    IF IsNA(cell) THEN "<NA>"
    ELSE IF IsNaN(cell) THEN "nan"
    ELSE IF dtype = "float64" THEN AsStr(cell.num) \o ".0"
    ELSE AsStr(cell.num)

\* df["Plant"] = df["Level"].astype(str) + "-" + df["Side"].astype(str)
PlantOf(level, side) == level \o "-" \o side

\* line 47 or 48: the frame with its Plant column
AddPlant(raw) ==
    [i \in 1..Len(raw) |->
        [f \in DOMAIN raw[i] \cup {"Plant"} |->
            IF f = "Plant"
            THEN PlantOf(astype_str(raw[i].Level, LevelDtype(raw)), raw[i].Side)
            ELSE raw[i][f]]]

\* line 58: the Date column parsed
ParseDates(df) == [i \in 1..Len(df) |-> [df[i] EXCEPT !["Date"] = to_datetime(df[i]["Date"])]]

\* lines 47 and 58 on the fetched growth rows
CleanGrowth(raw) == ParseDates(AddPlant(raw))

\* line 48 on the fetched harvest rows (the harvest Date stays a string)
CleanHarvest(raw) == AddPlant(raw)

\* a conversion that reads the minutes as hundredths of an hour
HoursOf_decimal_minutes(hms) == Norm(Q(100 * hms[1] + hms[2], 100))

\* pd.to_timedelta("HH:MM:SS").dt.total_seconds() / 3600
HoursOf(hms) == Norm(Q(3600 * hms[1] + 60 * hms[2] + hms[3], 3600))

\* lines 51-52 on the fetched sun rows
CleanSun(raw) ==
    [i \in 1..Len(raw) |->
        [Date |-> raw[i].Date, HoursOfDaylight |-> HoursOf(raw[i].HoursOfDaylight)]]

\* the columns a charted measurement row must have (line 55)
ChartColumns == {"Depth", "pH", "EC", "PPM", "Temperature"}

\* a dropna that looks at the pH cell alone
dropna_ph_only(df, subset) == SelectSeq(df, LAMBDA r : IsPresent(r["pH"]))

\* df.dropna(subset=...): a new frame of the rows with a value in every subset column
dropna(df, subset) == SelectSeq(df, LAMBDA r : \A c \in subset : IsPresent(r[c]))

----------------------------------------------------------------------------
(* Aggregator *)

SetMin(S) == CHOOSE m \in S : \A x \in S : m <= x
SetMax(S) == CHOOSE m \in S : \A x \in S : m >= x

RECURSIVE SortAsc(_)
SortAsc(S) == IF S = {} THEN <<>> ELSE <<SetMin(S)>> \o SortAsc(S \ {SetMin(S)})

\* group keys that keep the missing date as a group of its own
GroupKeys_keep_missing(df) == SortAsc({df[i]["Date"] : i \in 1..Len(df)})

\* the group keys of groupby("Date"): distinct, missing dates dropped, ascending
GroupKeys(df) == SortAsc({df[i]["Date"] : i \in 1..Len(df)} \ {NaT})

\* the rows of one group, in frame order
GroupRows(df, d) == SelectSeq(df, LAMBDA r : r["Date"] = d)

\* df.groupby("Date")[cols].mean().reset_index()
GroupByDateMean(df, cols) ==
    LET keys == GroupKeys(df)
    IN [k \in 1..Len(keys) |->
           [c \in cols \cup {"Date"} |->
               IF c = "Date" THEN keys[k]
               ELSE Mean(Column(GroupRows(df, keys[k]), c))]]

\* select_dtypes(include=["int64", "float64"]): a column holding pd.NA is an
\* object column and is left out
numeric_columns(df) ==
    {c \in {"Level", "Height", "Width", "Leaf"} : \A i \in 1..Len(df) : ~IsNA(df[i][c])}

\* line 60
SummaryOf(growth) == GroupByDateMean(growth, numeric_columns(growth))

GrowthMetrics == {"Height", "Width", "Leaf"}

\* the selection without its filter
FilterPlant_all_rows(df, selected_plant) == df

\* plant_growth[plant_growth["Plant"] == selected_plant]
FilterPlant(df, selected_plant) == SelectSeq(df, LAMBDA r : r["Plant"] = selected_plant)

\* lines 942-943
PlantSeries(growth, selected_plant) ==
    GroupByDateMean(FilterPlant(growth, selected_plant), GrowthMetrics)

----------------------------------------------------------------------------
(* Projector *)

\* Natural numbers of any size, as little-endian sequences of base-10000 limbs:
\* ten compounding steps leave the range of the model checker's integers.
RECURSIVE BigOf(_)
BigOf(n) == IF n = 0 THEN <<>> ELSE <<n % 10000>> \o BigOf(n \div 10000)

RECURSIVE BigMulCarry(_, _, _)
BigMulCarry(a, m, carry) ==
    IF a = <<>> THEN BigOf(carry)
    ELSE LET t == Head(a) * m + carry
         IN <<t % 10000>> \o BigMulCarry(Tail(a), m, t \div 10000)

BigMulInt(a, m) == IF m = 0 THEN <<>> ELSE BigMulCarry(a, m, 0)

RECURSIVE BigLtSameLen(_, _)
BigLtSameLen(a, b) ==
    IF a = <<>> THEN FALSE
    ELSE LET n == Len(a)
         IN IF a[n] # b[n] THEN a[n] < b[n]
            ELSE BigLtSameLen(SubSeq(a, 1, n - 1), SubSeq(b, 1, n - 1))

BigLt(a, b) == IF Len(a) # Len(b) THEN Len(a) < Len(b) ELSE BigLtSameLen(a, b)
BigLe(a, b) == ~BigLt(b, a)

\* A projected value: (-1)^neg * num / (den * 100^exp); den = 0 is NaN.
Exact(q) == [neg |-> q.num < 0, num |-> BigOf(Abs(q.num)), den |-> q.den, exp |-> 0]

\* last_value *= f / 100, for a factor f > 0 given in hundredths
Times(v, f) ==
    IF v.den <= 0 THEN v
    ELSE [neg |-> v.neg, num |-> BigMulInt(v.num, f), den |-> v.den, exp |-> v.exp + 1]

\* the generator: a repeating stream of samples u of random_sample(), u = 0, 1/2 or 1
\* given in halves, and the position of the next draw
Draw(gen, i) == gen.cycle[((gen.pos + i - 1) % Len(gen.cycle)) + 1]
Advance(gen, n) == [gen EXCEPT !.pos = (gen.pos + n) % Len(gen.cycle)]

\* np.random.uniform(low, high) = low + (high - low) * u, in hundredths
uniform(low, high, u2) == low + ((high - low) * u2) \div 2

\* the loop without compounding: every value is one step from the first value
RECURSIVE projections_flat(_, _, _, _, _, _)
projections_flat(last_value, i, days, growth_rate, noise_factor, gen) ==
    IF i > days THEN <<>>
    ELSE LET fluctuation == uniform(-noise_factor, noise_factor, Draw(gen, i))
         IN <<Times(last_value, growth_rate + fluctuation)>>
            \o projections_flat(last_value, i + 1, days, growth_rate, noise_factor, gen)

\* the loop of lines 284-288: the running value after each of the draws i..days
RECURSIVE projections(_, _, _, _, _, _)
projections(last_value, i, days, growth_rate, noise_factor, gen) ==
    IF i > days THEN <<>>
    ELSE LET fluctuation == uniform(-noise_factor, noise_factor, Draw(gen, i))
             next_value == Times(last_value, growth_rate + fluctuation)
         IN <<next_value>>
            \o projections(next_value, i + 1, days, growth_rate, noise_factor, gen)

\* df["Date"].max()
MaxDate(df) == SetMax({df[i]["Date"] : i \in 1..Len(df)})

\* a date range that leaves out its start
date_range_after_start(start, periods) == [k \in 1..periods |-> start + k]

\* pd.date_range(start, periods=days)
date_range(start, periods) == [k \in 1..periods |-> start + (k - 1)]

\* the defaults of extend_growth_data, in hundredths
days_default == 10
growth_rate_default == 102
noise_factor_default == 3

\* the projector with a default of zero for the missing last value
extend_growth_data_zero_default(df, column, days, growth_rate, noise_factor, gen) ==
    LET last_value == IF Len(df) = 0 THEN Exact(Q(0, 1)) ELSE Exact(df[Len(df)][column])
        start == IF Len(df) = 0 THEN 1 ELSE MaxDate(df) + 1
        future_dates == date_range(start, days)
        values == projections(last_value, 1, days, growth_rate, noise_factor, gen)
    IN [raised |-> "",
        rows |-> [k \in 1..days |->
                     [c \in {"Date", column} |->
                         IF c = "Date" THEN future_dates[k] ELSE values[k]]]]

\* extend_growth_data(df, column, days, growth_rate, noise_factor), drawing from gen;
\* df[column].iloc[-1] raises IndexError on an empty frame
extend_growth_data(df, column, days, growth_rate, noise_factor, gen) ==
    IF Len(df) = 0 THEN [raised |-> "IndexError", rows |-> <<>>]
    ELSE LET last_value == Exact(df[Len(df)][column])
             future_dates == date_range(MaxDate(df) + 1, days)
             values == projections(last_value, 1, days, growth_rate, noise_factor, gen)
         IN [raised |-> "",
             rows |-> [k \in 1..days |->
                          [c \in {"Date", column} |->
                              IF c = "Date" THEN future_dates[k] ELSE values[k]]]]

----------------------------------------------------------------------------
(* Charts and callbacks *)

None == [kind |-> "None"]

\* create_projection_chart without the pd.concat of line 300: the forecast trace is
\* the projection alone
create_projection_chart_detached(df_actual, df_proj, x_col, y_col) ==
    [kind |-> "Figure",
     actual |-> [x |-> Column(df_actual, x_col), y |-> Column(df_actual, y_col)],
     forecast |-> [x |-> Column(df_proj, x_col), y |-> Column(df_proj, y_col)]]

\* create_projection_chart: the two traces of the figure
create_projection_chart(df_actual, df_proj, x_col, y_col) ==
    LET tail1 == IF Len(df_actual) = 0 THEN <<>> ELSE <<df_actual[Len(df_actual)]>>
        joined == tail1 \o df_proj
    IN [kind |-> "Figure",
        actual |-> [x |-> Column(df_actual, x_col), y |-> Column(df_actual, y_col)],
        forecast |-> [x |-> Column(joined, x_col), y |-> Column(joined, y_col)]]

\* lexicographic rank of the harvest date strings of the sample data
\* (sort_values("Date") sorts the unparsed strings)
LexRank(s) ==
    CASE s = "2025-03-02" -> 1
      [] s = "2025-03-10" -> 2
      [] s = "3/10/2025" -> 3
      [] s = "3/9/2025" -> 4
      [] s = "n/a" -> 5

\* harvest_df.sort_values("Date").iloc[-1]: a row of greatest Date string, the last
\* such row in frame order
LatestHarvest(harvest_df) ==
    LET top == SetMax({LexRank(harvest_df[i]["Date"]) : i \in 1..Len(harvest_df)})
        last == SetMax({i \in 1..Len(harvest_df) : LexRank(harvest_df[i]["Date"]) = top})
    IN harvest_df[last]

\* the harvest info cards of a selected plant (lines 1002-1037); the date card shows
\* pd.to_datetime(latest["Date"]).date(), the parsed date
InfoCards(selected_plant) ==
    LET harvest_df == FilterPlant(plant_harvest, selected_plant)
    IN IF Len(harvest_df) # 0
       THEN LET latest == LatestHarvest(harvest_df)
            IN [kind |-> "Cards", yield |-> latest["Yield"], roots |-> latest["Roots"],
                brix |-> latest["Brix"], date |-> to_datetime(latest["Date"])]
       ELSE [kind |-> "Div", text |-> "No harvest data available for this plant."]

\* line 1021 parses without errors="coerce": a string that is no date raises
InfoCardsRaise(selected_plant) ==
    LET harvest_df == FilterPlant(plant_harvest, selected_plant)
    IN IF Len(harvest_df) # 0 /\ to_datetime(LatestHarvest(harvest_df)["Date"]) = NaT
       THEN "ValueError"
       ELSE ""

ColumnOfMetric == <<"Height", "Width", "Leaf">>

\* update_growth_and_layout(selected_plant) with the generator in state gen: the
\* eight outputs, the exception raised instead, and the number of draws consumed
update_growth_and_layout(selected_plant, gen) ==
    LET is_all == selected_plant = "all"
        df == IF is_all THEN plant_growth_summary
              ELSE PlantSeries(plant_growth, selected_plant)
        D == days_default
        \* lines 950-952: the projections of the individual charts
        first(m) == extend_growth_data(df, ColumnOfMetric[m], D, growth_rate_default,
                                       noise_factor_default, Advance(gen, (m - 1) * D))
        used == IF is_all THEN 0 ELSE 3 * D
        \* lines 1040-1050: the projections of the three line charts
        second(m) == extend_growth_data(df, ColumnOfMetric[m], D, growth_rate_default,
                                        noise_factor_default,
                                        Advance(gen, used + (m - 1) * D))
        fig(m) == create_projection_chart(df, second(m).rows, "Date", ColumnOfMetric[m])
        title_suffix == IF is_all THEN "" ELSE " - " \o selected_plant
    IN IF Len(df) = 0
       THEN [raised |-> "IndexError", draws |-> 0]
       ELSE IF ~is_all /\ InfoCardsRaise(selected_plant) # ""
       THEN [raised |-> InfoCardsRaise(selected_plant), draws |-> used]
       ELSE [raised |-> "", draws |-> used + 3 * D,
             height_fig |-> fig(1), width_fig |-> fig(2), leaf_fig |-> fig(3),
             summary_style |-> [display |-> IF is_all THEN "block" ELSE "none"],
             all_plants_style |-> [display |-> IF is_all THEN "block" ELSE "none"],
             individual_section |->
                 IF is_all THEN None
                 ELSE [kind |-> "Container",
                       titles |-> <<"Plant Height" \o title_suffix,
                                    "Plant Width" \o title_suffix,
                                    "Largest Leaf Size" \o title_suffix>>,
                       figures |-> [m \in 1..3 |->
                           create_projection_chart(df, first(m).rows, "Date",
                                                   ColumnOfMetric[m])]],
             individual_style |-> [display |-> IF is_all THEN "none" ELSE "block"],
             info_cards |-> IF is_all THEN None ELSE InfoCards(selected_plant)]

\* the reset with "or" for "and" in its test
reset_dropdown_or(active_tab, current_value) ==
    IF active_tab # "plant-growth-harvest" \/ current_value # "all"
    THEN [prevent_update |-> FALSE, value |-> "all"]
    ELSE [prevent_update |-> TRUE, value |-> current_value]

\* the reset with its tab test turned round: it resets on arriving at the tab
reset_dropdown_on_arrival(active_tab, current_value) ==
    IF active_tab = "plant-growth-harvest" /\ current_value # "all"
    THEN [prevent_update |-> FALSE, value |-> "all"]
    ELSE [prevent_update |-> TRUE, value |-> current_value]

\* reset_dropdown_on_tab_change: the new selector value, or PreventUpdate
reset_dropdown_on_tab_change(active_tab, current_value) ==
    IF active_tab # "plant-growth-harvest" /\ current_value # "all"
    THEN [prevent_update |-> FALSE, value |-> "all"]
    ELSE [prevent_update |-> TRUE, value |-> current_value]

Tabs == {"environmental-conditions", "plant-growth-harvest", "insights"}

\* the options of the plant selector (lines 740-741)
SelectorOptions == {"all"} \cup {plant_growth[i]["Plant"] : i \in 1..Len(plant_growth)}

\* the outputs as app.layout declares them, before any callback has run
LayoutView ==
    [height_fig |-> None, width_fig |-> None, leaf_fig |-> None,
     summary_style |-> [display |-> "unset"],
     all_plants_style |-> [display |-> "unset"],
     individual_section |-> None,
     individual_style |-> [display |-> "none"],
     info_cards |-> None]

----------------------------------------------------------------------------
(* Startup: the module-level code, from the five requests to the layout *)

\* the empty string of the JSON, before line 36 replaces it
Blank == [num |-> 0, den |-> -2]

NumericColumns ==
    {"Level", "Height", "Width", "Leaf", "Yield", "Roots", "Brix", "Depth", "pH", "EC",
     "PPM", "Temperature", "ArtificialLight"}

\* .replace("", pd.NA) on the numeric cells of one row
ReplaceBlank(row) ==
    [f \in DOMAIN row |->
        IF f \in NumericColumns THEN (IF row[f] = Blank THEN NA ELSE row[f]) ELSE row[f]]

\* fetch_data after requests.get returned: the rows of a 200 response, and an empty
\* frame without columns (here <<>>) for any other status
fetch_data(response) ==
    IF response.status_code = 200
    THEN [i \in 1..Len(response.rows) |-> ReplaceBlank(response.rows[i])]
    ELSE <<>>

\* the specifications of the running dashboard start from the loaded data and
\* leave the responses out
NoResponses == [kind |-> "None"]

Serving == [pc |-> "serving", raised |-> "", at |-> ""]

\* the next position of the module-level code: after an exception nothing more runs
Proceed(next, exc) ==
    IF exc = "" THEN [pc |-> next, raised |-> "", at |-> ""]
    ELSE [pc |-> "crashed", raised |-> exc, at |-> startup.pc]

\* the state the module-level code leaves when every step of it has run
Started ==
    /\ unit_measurements_chart = dropna(unit_measurements, ChartColumns)
    /\ responses = NoResponses
    /\ startup = Serving

\* pd.to_timedelta raises ValueError on a string that is no duration (here a clock
\* string is its three fields, and any other string is not a triple)
IsClock(hms) == Len(hms) = 3

\* create_sunlight_chart (lines 161-189): px.line needs the columns, and the tick
\* slice df[x_col][::len(df) // 5] needs a step that is not zero
create_sunlight_chart_raises(df) ==
    IF df = <<>> THEN "ValueError"
    ELSE IF Len(df) \div 5 = 0 THEN "ValueError"
    ELSE ""

\* tickvals=df[x_col][::len(df) // 5] (line 180): the cells of rows 0, step, 2 * step,
\* ... for step = len(df) // 5, which the slice needs to be other than zero
tickvals(df, x_col) ==
    LET step == Len(df) \div 5
        count == (Len(df) + step - 1) \div step
    IN [k \in 1..count |-> df[(k - 1) * step + 1][x_col]]

\* create_heatmap (lines 324-347): df.pivot raises ValueError when two rows with a
\* value for z_col have the same plant and date
create_heatmap_raises(df, z_col) ==
    IF \E i, j \in 1..Len(df) :
          /\ i < j
          /\ IsPresent(df[i][z_col]) /\ IsPresent(df[j][z_col])
          /\ df[i]["Plant"] = df[j]["Plant"]
          /\ df[i]["Date"] = df[j]["Date"]
    THEN "ValueError"
    ELSE ""

\* the first exception the six insight functions raise for the layout, "" if none
AlertCenterRaises ==
    LET cards == <<get_yield_insight, get_ph_insight, get_ec_insight, get_light_insight,
                   get_leaf_size_insight, get_brix_insight>>
        bad == {i \in 1..6 : cards[i].raised # ""}
    IN IF bad = {} THEN "" ELSE cards[SetMin(bad)].raised

----------------------------------------------------------------------------
(* Sample data: the input sets the initial states are drawn from *)

MaxGrowthRows == 2
MaxAggRows == 3
MaxAlertRows == 2
MaxPending == 2
MaxDays == 10
MaxEvaluations == 2

Seqs(S, n) == UNION {[1..k -> S] : k \in 1..n}

MetricsA == [Height |-> Q(4, 1), Width |-> Q(5, 2), Leaf |-> Q(3, 1)]
MetricsB == [Height |-> Q(7, 1), Width |-> NaN, Leaf |-> Q(19, 10)]

RawGrowthRow(level, date, m) ==
    [Level |-> Q(level, 1), Side |-> "A", Date |-> date,
     Height |-> m.Height, Width |-> m.Width, Leaf |-> m.Leaf]

RichGrowthRows ==
    {RawGrowthRow(l, d, m) : l \in {1, 2}, d \in {"2025-03-01", "2025-03-02", "n/a"},
                             m \in {MetricsA, MetricsB}}

LeanGrowthRows ==
    {RawGrowthRow(1, "2025-03-01", MetricsA), RawGrowthRow(1, "2025-03-01", MetricsB),
     RawGrowthRow(1, "2025-03-03", MetricsB), RawGrowthRow(2, "2025-03-01", MetricsB),
     RawGrowthRow(2, "n/a", MetricsA)}

RawHarvestRow(level, date, yield, roots, brix) ==
    [Level |-> Q(level, 1), Side |-> "A", Date |-> date, Yield |-> yield, Roots |-> roots,
     Brix |-> brix]

BaseHarvest ==
    CleanHarvest(<<RawHarvestRow(1, "2025-03-02", Q(452, 10), Q(120, 1), Q(7, 1)),
                   RawHarvestRow(1, "2025-03-10", Q(55, 1), Q(140, 1), Q(9, 1))>>)

\* yield and Brix samples on and around the band edges
HarvestSamples ==
    {RawHarvestRow(1, "2025-03-02", y[1], Q(120, 1), y[2]) :
        y \in {<<Q(299, 10), Q(59, 10)>>, <<Q(30, 1), Q(6, 1)>>, <<Q(452, 10), Q(79, 10)>>,
               <<Q(499, 10), Q(8, 1)>>, <<Q(50, 1), Q(9, 1)>>, <<Q(55, 1), NaN>>,
               <<NaN, Q(61, 10)>>}}

MeasurementRow(ph, ec) ==
    [Timestamp |-> "2025-03-01 08:00", Depth |-> Q(6, 1), pH |-> ph, EC |-> ec,
     PPM |-> Q(800, 1), Temperature |-> Q(72, 1)]

BaseMeasurements == <<MeasurementRow(Q(6, 1), Q(15, 10)), MeasurementRow(Q(61, 10), NaN)>>

MeasurementSamples ==
    {MeasurementRow(ph, Q(15, 10)) :
        ph \in {Q(519, 100), Q(52, 10), Q(549, 100), Q(55, 10), Q(65, 10), Q(651, 100),
                Q(68, 10), Q(69, 10), NaN}}

\* EC samples in every band of the EC alert, and a missing one
EcSamples ==
    {MeasurementRow(Q(6, 1), ec) :
        ec \in {Q(5, 10), Q(8, 10), Q(15, 10), Q(22, 10), Q(3, 1), Q(333, 100), NaN}}

RawSunRow(hms) == [Date |-> "2025-03-01", HoursOfDaylight |-> hms]

\* a sun frame of five rows, the fewest create_sunlight_chart accepts, repeating the
\* rows of r in turn
SunFrame(r) == [i \in 1..5 |-> r[((i - 1) % Len(r)) + 1]]

BaseSun == CleanSun(SunFrame(<<RawSunRow(<<6, 30, 0>>)>>))

SunSamples == {RawSunRow(hms) : hms \in {<<0, 0, 0>>, <<2, 29, 59>>, <<2, 30, 0>>,
                                         <<6, 30, 0>>, <<14, 0, 0>>}}

ParameterRow(artificial) == [UnitID |-> "ATLAS-1", ArtificialLight |-> artificial]

BaseParameters == <<ParameterRow(Q(12, 1))>>

ArtificialSamples == {Q(0, 1), Q(7, 2), Q(12, 1), NaN, NA}

BaseGrowth == CleanGrowth(<<RawGrowthRow(1, "2025-03-01", MetricsA)>>)

\* repeating streams of the generator
Generators == {<<0>>, <<2>>, <<0, 2, 1>>}
DashboardGenerators == {<<1>>, <<0, 2>>}

NoAlerts == [m \in Metrics |-> None]
NoProbe == [metric |-> "", value |-> NaN, card |-> None, n |-> 0]
NoSeries == [selected_plant |-> "", df |-> <<>>]
NoProjection == [input |-> "", df |-> <<>>, column |-> "", days |-> 0, rows |-> <<>>,
                 raised |-> ""]

\* values on and around every band edge, for the band logic
ProbeValues ==
    {Norm(Q(n, 100)) : n \in {-100, 0, 69, 70, 99, 100, 101, 199, 200, 201, 250, 251, 299, 300,
                        333, 519, 520, 549, 550, 599, 600, 650, 651, 680, 681, 690, 799,
                        800, 2400, 2999, 3000, 4520, 4999, 5000, 5500}}

\* the rows of r dated on consecutive days, one row of a plant a day
OnDays(r) ==
    LET days == <<"2025-03-01", "2025-03-02", "2025-03-03", "2025-03-04">>
    IN [i \in 1..Len(r) |-> [r[i] EXCEPT !.Date = days[i]]]

LeafSamples ==
    {RawGrowthRow(1, "2025-03-01", [Height |-> Q(4, 1), Width |-> Q(5, 2), Leaf |-> l]) :
        l \in {Q(19, 10), Q(2, 1), Q(29, 10), Q(3, 1), NaN}}

MaxHarvestRows == 2

\* harvest records of plant 1-A, each with its own values, dated in the two ways a
\* backend may write a date and once with no date at all
HarvestCardRows ==
    {RawHarvestRow(1, "2025-03-02", Q(30, 1), Q(110, 1), Q(6, 1)),
     RawHarvestRow(1, "2025-03-10", Q(452, 10), Q(120, 1), Q(7, 1)),
     RawHarvestRow(1, "3/9/2025", Q(50, 1), Q(130, 1), Q(8, 1)),
     RawHarvestRow(1, "3/10/2025", Q(55, 1), Q(140, 1), Q(9, 1)),
     RawHarvestRow(1, "n/a", Q(20, 1), Q(100, 1), Q(5, 1))}

\* growth rows of two plants; plant 2-A has no harvest record
TwoPlants ==
    CleanGrowth(<<RawGrowthRow(1, "2025-03-01", MetricsA),
                  RawGrowthRow(2, "2025-03-02", MetricsB)>>)

----------------------------------------------------------------------------
(* The dashboard: initial states after start-up, user events and callbacks *)

\* what the browser holds after the page has loaded: the layout's values, and the
\* initial call of update_growth_and_layout on its way (reset_dropdown_on_tab_change
\* has prevent_initial_call=True)
InitUI ==
    /\ tab = "environmental-conditions"
    /\ selector = "all"
    /\ pending = <<[cb |-> "update", selected_plant |-> "all"]>>
    /\ view = LayoutView
    /\ series = NoSeries
    /\ callback_error = ""

\* the module has run: data fetched and cleaned, the summary built (it is not empty,
\* or line 293 would have raised), no two rows of a plant on one day (or a heatmap
\* would have raised), 3 * 10 draws spent on lines 293-295, the six alert cards
\* evaluated for the layout
Init ==
    /\ plant_growth \in {CleanGrowth(r) : r \in Seqs(LeanGrowthRows, MaxGrowthRows)}
    /\ plant_growth_summary = SummaryOf(plant_growth)
    /\ Len(plant_growth_summary) > 0
    /\ \A z \in GrowthMetrics : create_heatmap_raises(plant_growth, z) = ""
    /\ plant_harvest = BaseHarvest
    /\ unit_measurements = BaseMeasurements
    /\ sun_data = BaseSun
    /\ unit_parameters = BaseParameters
    /\ alerts = AlertCenter
    /\ probe = NoProbe
    /\ rng \in {[cycle |-> c, pos |-> (3 * days_default) % Len(c)] :
                   c \in DashboardGenerators}
    /\ projection = NoProjection
    /\ Started
    /\ InitUI

\* the user picks another option of the plant selector (shown on the growth tab)
SelectPlant(p) ==
    /\ tab = "plant-growth-harvest"
    /\ p # selector
    /\ Len(pending) < MaxPending
    /\ selector' = p
    /\ pending' = Append(pending, [cb |-> "update", selected_plant |-> p])
    /\ UNCHANGED <<data, alerts, probe, rng, tab, view, series, callback_error, projection>>

\* the user clicks another tab
SwitchTab(t) ==
    /\ t # tab
    /\ Len(pending) < MaxPending
    /\ tab' = t
    /\ pending' = Append(pending, [cb |-> "reset", active_tab |-> t,
                                   current_value |-> selector])
    /\ UNCHANGED <<data, alerts, probe, rng, selector, view, series, callback_error,
                   projection>>

\* the server runs reset_dropdown_on_tab_change and the browser applies its answer
RunReset ==
    /\ pending # <<>>
    /\ Head(pending).cb = "reset"
    /\ LET r == reset_dropdown_on_tab_change(Head(pending).active_tab,
                                             Head(pending).current_value)
       IN IF r.prevent_update
          THEN /\ pending' = Tail(pending)
               /\ UNCHANGED selector
          ELSE /\ selector' = r.value
               /\ pending' = Append(Tail(pending),
                                    [cb |-> "update", selected_plant |-> r.value])
    /\ UNCHANGED <<data, alerts, probe, rng, tab, view, series, callback_error, projection>>

\* update_growth_and_layout that filters the module-level frame itself instead of
\* a copy of it
RunUpdate_filters_global ==
    /\ pending # <<>>
    /\ Head(pending).cb = "update"
    /\ LET selected_plant == Head(pending).selected_plant
           r == update_growth_and_layout(selected_plant, rng)
       IN /\ series' = [selected_plant |-> selected_plant,
                        df |-> IF selected_plant = "all" THEN plant_growth_summary
                               ELSE PlantSeries(plant_growth, selected_plant)]
          /\ callback_error' = r.raised
          /\ rng' = Advance(rng, r.draws)
          /\ view' = IF r.raised # "" THEN view
                     ELSE [f \in DOMAIN LayoutView |-> r[f]]
          /\ plant_growth' = IF selected_plant = "all" THEN plant_growth
                             ELSE FilterPlant(plant_growth, selected_plant)
    /\ pending' = Tail(pending)
    /\ UNCHANGED <<plant_harvest, unit_measurements, sun_data, unit_parameters,
                   plant_growth_summary, unit_measurements_chart, responses, startup,
                   alerts, probe, tab, selector, projection>>

\* update_growth_and_layout with the leaf-size alert among its outputs, evaluated
\* again on the rows of the selection
RunUpdate_refreshes_alert ==
    /\ pending # <<>>
    /\ Head(pending).cb = "update"
    /\ LET selected_plant == Head(pending).selected_plant
           r == update_growth_and_layout(selected_plant, rng)
           rows == IF selected_plant = "all" THEN plant_growth
                   ELSE FilterPlant(plant_growth, selected_plant)
       IN /\ series' = [selected_plant |-> selected_plant,
                        df |-> IF selected_plant = "all" THEN plant_growth_summary
                               ELSE PlantSeries(plant_growth, selected_plant)]
          /\ callback_error' = r.raised
          /\ rng' = Advance(rng, r.draws)
          /\ view' = IF r.raised # "" THEN view
                     ELSE [f \in DOMAIN LayoutView |-> r[f]]
          /\ alerts' = IF r.raised # "" THEN alerts
                       ELSE [alerts EXCEPT
                                !.leaf = leaf_size_insight(Mean(Column(rows, "Leaf")))]
    /\ pending' = Tail(pending)
    /\ UNCHANGED <<data, probe, tab, selector, projection>>

\* the server runs update_growth_and_layout and the browser applies its outputs;
\* when it raises, the outputs keep their values
RunUpdate ==
    /\ pending # <<>>
    /\ Head(pending).cb = "update"
    /\ LET selected_plant == Head(pending).selected_plant
           r == update_growth_and_layout(selected_plant, rng)
       IN /\ series' = [selected_plant |-> selected_plant,
                        df |-> IF selected_plant = "all" THEN plant_growth_summary
                               ELSE PlantSeries(plant_growth, selected_plant)]
          /\ callback_error' = r.raised
          /\ rng' = Advance(rng, r.draws)
          /\ view' = IF r.raised # "" THEN view
                     ELSE [f \in DOMAIN LayoutView |-> r[f]]
    /\ pending' = Tail(pending)
    /\ UNCHANGED <<data, alerts, probe, tab, selector, projection>>

Next ==
    \/ \E p \in SelectorOptions : SelectPlant(p)
    \/ \E t \in Tabs : SwitchTab(t)
    \/ RunReset
    \/ RunUpdate

Spec == Init /\ [][Next]_vars

----------------------------------------------------------------------------
(* The dashboard over harvest datasets: the info cards of a selected plant *)

InitCards ==
    /\ plant_growth = TwoPlants
    /\ plant_growth_summary = SummaryOf(plant_growth)
    /\ plant_harvest \in {CleanHarvest(r) : r \in Seqs(HarvestCardRows, MaxHarvestRows)}
    /\ unit_measurements = BaseMeasurements
    /\ sun_data = BaseSun
    /\ unit_parameters = BaseParameters
    /\ alerts = AlertCenter
    /\ probe = NoProbe
    /\ rng = [cycle |-> <<1>>, pos |-> 0]
    /\ projection = NoProjection
    /\ Started
    /\ InitUI

SpecCards == InitCards /\ [][Next]_vars

----------------------------------------------------------------------------
(* The Alert Center built from loaded data *)

IdleUI ==
    /\ tab = "environmental-conditions"
    /\ selector = "all"
    /\ pending = <<>>
    /\ view = LayoutView
    /\ series = NoSeries
    /\ callback_error = ""

\* one dataset varies over its samples, the others hold their base rows
InitAlerts ==
    /\ \/ /\ plant_harvest \in {CleanHarvest(r) : r \in Seqs(HarvestSamples, MaxAlertRows)}
          /\ unit_measurements = BaseMeasurements
          /\ sun_data = BaseSun
          /\ unit_parameters = BaseParameters
          /\ plant_growth = BaseGrowth
       \/ /\ plant_harvest = BaseHarvest
          /\ unit_measurements \in Seqs(MeasurementSamples, MaxAlertRows)
          /\ sun_data = BaseSun
          /\ unit_parameters = BaseParameters
          /\ plant_growth = BaseGrowth
       \/ /\ plant_harvest = BaseHarvest
          /\ unit_measurements \in Seqs(EcSamples, MaxAlertRows)
          /\ sun_data = BaseSun
          /\ unit_parameters = BaseParameters
          /\ plant_growth = BaseGrowth
       \/ /\ plant_harvest = BaseHarvest
          /\ unit_measurements = BaseMeasurements
          /\ sun_data \in {CleanSun(SunFrame(r)) : r \in Seqs(SunSamples, MaxAlertRows)}
          /\ unit_parameters \in {<<ParameterRow(a)>> : a \in ArtificialSamples}
          /\ plant_growth = BaseGrowth
       \/ /\ plant_harvest = BaseHarvest
          /\ unit_measurements = BaseMeasurements
          /\ sun_data = BaseSun
          /\ unit_parameters = BaseParameters
          /\ plant_growth \in {CleanGrowth(OnDays(r)) : r \in Seqs(LeafSamples, MaxAlertRows)}
    /\ plant_growth_summary = SummaryOf(plant_growth)
    /\ alerts = NoAlerts
    /\ probe = NoProbe
    /\ rng = [cycle |-> <<1>>, pos |-> 0]
    /\ projection = NoProjection
    /\ Started
    /\ IdleUI

\* lines 898-916: the layout evaluates the six insight functions
BuildAlertCenter ==
    /\ alerts = NoAlerts
    /\ alerts' = AlertCenter
    /\ UNCHANGED <<data, probe, rng, ui, projection>>

NextAlerts == BuildAlertCenter

SpecAlerts == InitAlerts /\ [][NextAlerts]_vars

----------------------------------------------------------------------------
(* The band logic of the six insight functions on drawn aggregate values *)

InitBands ==
    /\ plant_harvest = BaseHarvest
    /\ unit_measurements = BaseMeasurements
    /\ sun_data = BaseSun
    /\ unit_parameters = BaseParameters
    /\ plant_growth = BaseGrowth
    /\ plant_growth_summary = SummaryOf(plant_growth)
    /\ alerts = AlertCenter
    /\ probe = NoProbe
    /\ rng = [cycle |-> <<1>>, pos |-> 0]
    /\ projection = NoProjection
    /\ Started
    /\ IdleUI

\* one more evaluation of a metric's band logic on the aggregate value v
Classify(metric, v) ==
    /\ probe.n < MaxEvaluations
    /\ probe' = [metric |-> metric, value |-> v, card |-> Insight(metric, v),
                 n |-> probe.n + 1]
    /\ UNCHANGED <<data, alerts, rng, ui, projection>>

NextBands == \E metric \in Metrics, v \in ProbeValues : Classify(metric, v)

SpecBands == InitBands /\ [][NextBands]_vars

----------------------------------------------------------------------------
(* The Aggregator on drawn growth rows *)

InitAgg ==
    /\ plant_growth \in {CleanGrowth(r) : r \in Seqs(RichGrowthRows, MaxAggRows)}
    /\ plant_growth_summary = <<>>
    /\ plant_harvest = BaseHarvest
    /\ unit_measurements = BaseMeasurements
    /\ sun_data = BaseSun
    /\ unit_parameters = BaseParameters
    /\ alerts = NoAlerts
    /\ probe = NoProbe
    /\ rng = [cycle |-> <<1>>, pos |-> 0]
    /\ projection = NoProjection
    /\ Started
    /\ IdleUI

\* line 60: the all-plants summary
Aggregate ==
    /\ plant_growth_summary = <<>>
    /\ plant_growth_summary' = SummaryOf(plant_growth)
    /\ UNCHANGED <<plant_growth, plant_harvest, unit_measurements, sun_data, unit_parameters,
                   unit_measurements_chart, responses, startup,
                   alerts, probe, rng, ui, projection>>

\* lines 942-943: the series of one plant
AggregatePlant(p) ==
    /\ p # "all"
    /\ series' = [selected_plant |-> p, df |-> PlantSeries(plant_growth, p)]
    /\ UNCHANGED <<data, alerts, probe, rng, tab, selector, pending, view, callback_error,
                   projection>>

NextAgg ==
    \/ Aggregate
    \/ \E p \in SelectorOptions : AggregatePlant(p)

SpecAgg == InitAgg /\ [][NextAgg]_vars

----------------------------------------------------------------------------
(* The Projector on the summary series and on the series of one plant *)

InitProj ==
    /\ plant_growth \in {CleanGrowth(r) : r \in Seqs(LeanGrowthRows, MaxGrowthRows)}
    /\ plant_growth_summary = SummaryOf(plant_growth)
    /\ plant_harvest = BaseHarvest
    /\ unit_measurements = BaseMeasurements
    /\ sun_data = BaseSun
    /\ unit_parameters = BaseParameters
    /\ alerts = NoAlerts
    /\ probe = NoProbe
    /\ rng \in {[cycle |-> c, pos |-> 0] : c \in Generators}
    /\ projection = NoProjection
    /\ Started
    /\ IdleUI

\* one call extend_growth_data(df, column, days) with the default rate and noise
Project(input, column, days) ==
    /\ projection = NoProjection
    /\ LET df == IF input = "all" THEN plant_growth_summary
                 ELSE PlantSeries(plant_growth, input)
           r == extend_growth_data(df, column, days, growth_rate_default,
                                   noise_factor_default, rng)
       IN /\ projection' = [input |-> input, df |-> df, column |-> column, days |-> days,
                            rows |-> r.rows, raised |-> r.raised]
          /\ rng' = IF r.raised = "" THEN Advance(rng, days) ELSE rng
    /\ UNCHANGED <<data, alerts, probe, ui>>

NextProj ==
    \E input \in SelectorOptions, column \in GrowthMetrics, days \in 0..MaxDays :
        Project(input, column, days)

SpecProj == InitProj /\ [][NextProj]_vars

----------------------------------------------------------------------------
(* Startup: what the backend answers, and the module-level code step by step *)

Ok(rows) == [status_code |-> 200, rows |-> rows, raised |-> ""]
Unavailable == [status_code |-> 503, rows |-> <<>>, raised |-> ""]
Unreachable == [status_code |-> 0, rows |-> <<>>, raised |-> "ConnectionError"]

OnSideB(row) == [row EXCEPT !.Side = "B"]
NullLevel(row) == [row EXCEPT !.Level = NaN]
BlankLevel(row) == [row EXCEPT !.Level = Blank]

GrowthResponses ==
    {Ok(<<RawGrowthRow(1, "2025-03-01", MetricsA),
          OnSideB(RawGrowthRow(1, "2025-03-01", MetricsB)),
          RawGrowthRow(2, "2025-03-02", MetricsA)>>),
     Ok(<<RawGrowthRow(1, "2025-03-02", MetricsB), RawGrowthRow(2, "n/a", MetricsA)>>),
     Ok(<<RawGrowthRow(1, "n/a", MetricsA)>>),
     Ok(<<RawGrowthRow(1, "2025-03-01", MetricsA), RawGrowthRow(1, "2025-03-01", MetricsA)>>),
     Ok(<<RawGrowthRow(1, "2025-03-01", MetricsA),
          NullLevel(OnSideB(RawGrowthRow(1, "2025-03-03", MetricsA)))>>),
     Ok(<<>>),
     Unavailable}

HarvestResponses ==
    {Ok(<<RawHarvestRow(1, "2025-03-02", Q(452, 10), Q(120, 1), Q(7, 1)),
          OnSideB(RawHarvestRow(1, "2025-03-10", Q(55, 1), Q(140, 1), Blank))>>),
     Ok(<<RawHarvestRow(1, "2025-03-02", Q(452, 10), Q(120, 1), Q(7, 1)),
          NullLevel(RawHarvestRow(2, "2025-03-10", Q(55, 1), Q(140, 1), Q(9, 1)))>>),
     Ok(<<RawHarvestRow(1, "2025-03-02", Blank, Q(120, 1), Q(7, 1)),
          BlankLevel(RawHarvestRow(2, "2025-03-10", Blank, Q(140, 1), Q(9, 1)))>>),
     Unavailable,
     Unreachable}

SunResponses ==
    {Ok(<<RawSunRow(<<6, 30, 0>>), RawSunRow(<<0, 0, 30>>), RawSunRow(<<25, 0, 0>>),
          RawSunRow(<<12, 15, 0>>), RawSunRow(<<6, 30, 0>>)>>),
     Ok(<<RawSunRow(<<1, 1, 1>>), RawSunRow(<<1, 1, 1>>), RawSunRow(<<1, 1, 1>>),
          RawSunRow(<<1, 1, 1>>), RawSunRow(<<23, 59, 59>>), RawSunRow(<<0, 45, 0>>)>>),
     Ok(<<RawSunRow(<<6, 30, 0>>)>>),
     Ok(<<RawSunRow(<<6, 30, 0>>), RawSunRow(<<>>), RawSunRow(<<6, 30, 0>>),
          RawSunRow(<<6, 30, 0>>), RawSunRow(<<6, 30, 0>>)>>),
     Unavailable}

MeasurementResponses ==
    {Ok(<<MeasurementRow(Q(6, 1), Q(15, 10)), MeasurementRow(Q(79, 10), Blank),
          MeasurementRow(NaN, Q(15, 10))>>),
     Ok(<<MeasurementRow(Q(51, 10), NaN), MeasurementRow(Q(53, 10), Blank)>>),
     Unavailable,
     Unreachable}

ParameterResponses ==
    {Ok(<<ParameterRow(Q(12, 1))>>), Ok(<<ParameterRow(Blank)>>), Unavailable}

\* nothing is bound before line 41 has run
InitStartup ==
    /\ responses \in [unit_parameters : ParameterResponses, sun_data : SunResponses,
                      unit_measurements : MeasurementResponses,
                      plant_growth : GrowthResponses, plant_harvest : HarvestResponses]
    /\ startup = [pc |-> "load", raised |-> "", at |-> ""]
    /\ plant_growth = <<>>
    /\ plant_harvest = <<>>
    /\ unit_measurements = <<>>
    /\ sun_data = <<>>
    /\ unit_parameters = <<>>
    /\ plant_growth_summary = <<>>
    /\ unit_measurements_chart = <<>>
    /\ alerts = NoAlerts
    /\ probe = NoProbe
    /\ rng = [cycle |-> <<0, 2>>, pos |-> 0]
    /\ projection = NoProjection
    /\ IdleUI

\* lines 41-44: the five requests in order; an exception of requests.get leaves the
\* tuple assignment undone
LoadDatasets ==
    /\ startup.pc = "load"
    /\ IF \E e \in DOMAIN responses : responses[e].raised # ""
       THEN /\ startup' = Proceed("", "ConnectionError")
            /\ UNCHANGED <<unit_parameters, sun_data, unit_measurements, plant_growth,
                           plant_harvest>>
       ELSE /\ startup' = Proceed("plant_growth", "")
            /\ unit_parameters' = fetch_data(responses.unit_parameters)
            /\ sun_data' = fetch_data(responses.sun_data)
            /\ unit_measurements' = fetch_data(responses.unit_measurements)
            /\ plant_growth' = fetch_data(responses.plant_growth)
            /\ plant_harvest' = fetch_data(responses.plant_harvest)
    /\ UNCHANGED <<plant_growth_summary, unit_measurements_chart, responses, alerts, probe,
                   rng, ui, projection>>

\* line 47: a frame without columns has no "Level"
AddGrowthPlant ==
    /\ startup.pc = "plant_growth"
    /\ LET exc == IF plant_growth = <<>> THEN "KeyError" ELSE ""
       IN /\ startup' = Proceed("plant_harvest", exc)
          /\ plant_growth' = IF exc = "" THEN AddPlant(plant_growth) ELSE plant_growth
    /\ UNCHANGED <<plant_harvest, unit_measurements, sun_data, unit_parameters,
                   plant_growth_summary, unit_measurements_chart, responses, alerts, probe,
                   rng, ui, projection>>

\* line 48
AddHarvestPlant ==
    /\ startup.pc = "plant_harvest"
    /\ LET exc == IF plant_harvest = <<>> THEN "KeyError" ELSE ""
       IN /\ startup' = Proceed("daylight", exc)
          /\ plant_harvest' = IF exc = "" THEN AddPlant(plant_harvest) ELSE plant_harvest
    /\ UNCHANGED <<plant_growth, unit_measurements, sun_data, unit_parameters,
                   plant_growth_summary, unit_measurements_chart, responses, alerts, probe,
                   rng, ui, projection>>

\* lines 51-52: skipped when the frame has no such column
ConvertDaylight ==
    /\ startup.pc = "daylight"
    /\ LET exc == IF \E i \in 1..Len(sun_data) : ~IsClock(sun_data[i].HoursOfDaylight)
                  THEN "ValueError" ELSE ""
       IN /\ startup' = Proceed("chart_view", exc)
          /\ sun_data' = IF exc = "" THEN CleanSun(sun_data) ELSE sun_data
    /\ UNCHANGED <<plant_growth, plant_harvest, unit_measurements, unit_parameters,
                   plant_growth_summary, unit_measurements_chart, responses, alerts, probe,
                   rng, ui, projection>>

\* line 55: dropna raises KeyError for a subset column the frame does not have
BuildChartView ==
    /\ startup.pc = "chart_view"
    /\ LET exc == IF unit_measurements = <<>> THEN "KeyError" ELSE ""
       IN /\ startup' = Proceed("summary", exc)
          /\ unit_measurements_chart' =
                IF exc = "" THEN dropna(unit_measurements, ChartColumns)
                ELSE unit_measurements_chart
    /\ UNCHANGED <<plant_growth, plant_harvest, unit_measurements, sun_data, unit_parameters,
                   plant_growth_summary, responses, alerts, probe, rng, ui, projection>>

\* lines 58-60
BuildSummary ==
    /\ startup.pc = "summary"
    /\ startup' = Proceed("parameters", "")
    /\ plant_growth' = ParseDates(plant_growth)
    /\ plant_growth_summary' = SummaryOf(ParseDates(plant_growth))
    /\ UNCHANGED <<plant_harvest, unit_measurements, sun_data, unit_parameters,
                   unit_measurements_chart, responses, alerts, probe, rng, ui, projection>>

\* lines 88-107: unit_parameters["Unit ID"].iloc[0] and the like
ExtractParameters ==
    /\ startup.pc = "parameters"
    /\ startup' = Proceed("charts", IF unit_parameters = <<>> THEN "KeyError" ELSE "")
    /\ UNCHANGED <<plant_growth, plant_harvest, unit_measurements, sun_data, unit_parameters,
                   plant_growth_summary, unit_measurements_chart, responses, alerts, probe,
                   rng, ui, projection>>

\* lines 135-260: the charts of the environment and harvest tabs
BuildCharts ==
    /\ startup.pc = "charts"
    /\ startup' = Proceed("projections", create_sunlight_chart_raises(sun_data))
    /\ UNCHANGED <<plant_growth, plant_harvest, unit_measurements, sun_data, unit_parameters,
                   plant_growth_summary, unit_measurements_chart, responses, alerts, probe,
                   rng, ui, projection>>

\* lines 293-295: three projections of the summary
ProjectSummary ==
    /\ startup.pc = "projections"
    /\ LET r == extend_growth_data(plant_growth_summary, "Height", days_default,
                                   growth_rate_default, noise_factor_default, rng)
       IN /\ startup' = Proceed("heatmaps", r.raised)
          /\ rng' = IF r.raised = "" THEN Advance(rng, 3 * days_default) ELSE rng
    /\ UNCHANGED <<plant_growth, plant_harvest, unit_measurements, sun_data, unit_parameters,
                   plant_growth_summary, unit_measurements_chart, responses, alerts, probe,
                   ui, projection>>

\* lines 350-379: the projection charts and the three heatmaps
BuildHeatmaps ==
    /\ startup.pc = "heatmaps"
    /\ LET raised == {create_heatmap_raises(plant_growth, z) : z \in GrowthMetrics} \ {""}
       IN startup' = Proceed("layout", IF raised = {} THEN "" ELSE "ValueError")
    /\ UNCHANGED <<plant_growth, plant_harvest, unit_measurements, sun_data, unit_parameters,
                   plant_growth_summary, unit_measurements_chart, responses, alerts, probe,
                   rng, ui, projection>>

\* lines 522-918: app.layout, which evaluates the six insight functions
BuildLayout ==
    /\ startup.pc = "layout"
    /\ startup' = Proceed("serving", AlertCenterRaises)
    /\ alerts' = IF AlertCenterRaises = "" THEN AlertCenter ELSE alerts
    /\ UNCHANGED <<plant_growth, plant_harvest, unit_measurements, sun_data, unit_parameters,
                   plant_growth_summary, unit_measurements_chart, responses, probe, rng, ui,
                   projection>>

NextStartup ==
    \/ LoadDatasets
    \/ AddGrowthPlant
    \/ AddHarvestPlant
    \/ ConvertDaylight
    \/ BuildChartView
    \/ BuildSummary
    \/ ExtractParameters
    \/ BuildCharts
    \/ ProjectSummary
    \/ BuildHeatmaps
    \/ BuildLayout

SpecStartup == InitStartup /\ [][NextStartup]_vars

----------------------------------------------------------------------------
(* Claims C1-C6: the Threshold Evaluator *)

Built == alerts # NoAlerts

\* the tier of a three-band metric: below lo, from lo up to (not including) hi, from hi
ThreeBands(v, lo, hi) ==
    IF Lt(v, lo) THEN "Critical" ELSE IF Ge(v, lo) /\ Lt(v, hi) THEN "Warning" ELSE "Normal"

\* the tier of a metric with an optimal window [nlo, nhi] inside a tolerated one [wlo, whi]
WindowBands(v, wlo, nlo, nhi, whi) ==
    IF Lt(v, wlo) \/ Gt(v, whi) THEN "Critical"
    ELSE IF (Ge(v, wlo) /\ Lt(v, nlo)) \/ (Gt(v, nhi) /\ Le(v, whi)) THEN "Warning"
    ELSE "Normal"

\* C1: for every real mean harvest yield v the yield card is Critical when v < 30,
\* Warning when 30 <= v < 50 and Normal when v >= 50 (so 30.0 and 45.2 are Warning,
\* 50.0 and 55.0 are Normal).
C1_YieldBands ==
    Built =>
        LET v == Mean(Column(plant_harvest, "Yield"))
        IN IsReal(v) =>
              /\ Severity(alerts.yield) = ThreeBands(v, Q(30, 1), Q(50, 1))
              /\ (v = Q(30, 1) => Severity(alerts.yield) = "Warning")
              /\ (v = Q(50, 1) => Severity(alerts.yield) = "Normal")
              /\ (v = Q(226, 5) => Severity(alerts.yield) = "Warning")
              /\ (v = Q(55, 1) => Severity(alerts.yield) = "Normal")

C1_Witness ==
    /\ Built
    /\ Mean(Column(plant_harvest, "Yield")) = Q(30, 1)
    /\ Len(plant_harvest) = 2
    /\ plant_harvest[1]["Yield"] # plant_harvest[2]["Yield"]
    /\ Severity(alerts.yield) = "Warning"

\* C2: for every real mean pH v the pH card is Critical when v < 5.2 or v > 6.8,
\* Warning when 5.2 <= v < 5.5 or 6.5 < v <= 6.8, Normal when 5.5 <= v <= 6.5
\* (6.9 is Critical; 5.2 and 6.8 are Warning; 5.5 and 6.5 are Normal).
C2_PhBands ==
    Built =>
        LET v == Mean(Column(unit_measurements, "pH"))
        IN IsReal(v) =>
              /\ Severity(alerts.ph)
                   = WindowBands(v, Q(52, 10), Q(55, 10), Q(65, 10), Q(68, 10))
              /\ (v = Q(69, 10) => Severity(alerts.ph) = "Critical")
              /\ (v \in {Q(26, 5), Q(34, 5)} => Severity(alerts.ph) = "Warning")
              /\ (v \in {Q(11, 2), Q(13, 2)} => Severity(alerts.ph) = "Normal")

C2_Witness ==
    /\ Built
    /\ Mean(Column(unit_measurements, "pH")) = Q(34, 5)
    /\ Severity(alerts.ph) = "Warning"

\* C3: for every EC value v given to the EC band logic the tier is Critical when
\* v < 0.7 or v > 2.5, Warning when 0.7 <= v < 1.0 or 2.0 < v <= 2.5, Normal when
\* 1.0 <= v <= 2.0.
C3_EcBands ==
    probe.metric = "ec" =>
        Severity(probe.card) = WindowBands(probe.value, Q(7, 10), Q(1, 1), Q(2, 1), Q(25, 10))

C3_Witness ==
    /\ probe.metric = "ec"
    /\ probe.value = Q(5, 2)
    /\ Severity(probe.card) = "Warning"

\* C4: the light card classifies total = min(mean daylight + artificial hours, 24):
\* the total never exceeds 24, the tier is Critical when total < 6 and Normal
\* otherwise, and no input gives the Warning tier.
C4_LightBands ==
    (Built /\ alerts.light.raised = "") =>
        LET sum == Add(Mean(Column(sun_data, "HoursOfDaylight")),
                       unit_parameters[1].ArtificialLight)
            total == alerts.light.value
        IN /\ ~Gt(total, Q(24, 1))
           /\ IsReal(sum) => total = (IF Gt(sum, Q(24, 1)) THEN Q(24, 1) ELSE sum)
           /\ Severity(alerts.light) = (IF Lt(total, Q(6, 1)) THEN "Critical" ELSE "Normal")
           /\ Severity(alerts.light) # "Warning"

C4_Witness ==
    /\ Built
    /\ alerts.light.raised = ""
    /\ Gt(Add(Mean(Column(sun_data, "HoursOfDaylight")), unit_parameters[1].ArtificialLight),
          Q(24, 1))
    /\ alerts.light.value = Q(24, 1)
    /\ Severity(alerts.light) = "Normal"

\* C5: for every real mean leaf size v the leaf card is Critical when v < 2.0, Warning
\* when 2.0 <= v < 3.0, Normal when v >= 3.0; for every real mean Brix b the Brix card
\* is Critical when b < 6, Warning when 6 <= b < 8, Normal when b >= 8.
C5_LeafAndBrixBands ==
    Built =>
        LET v == Mean(Column(plant_growth, "Leaf"))
            b == Mean(Column(plant_harvest, "Brix"))
        IN /\ IsReal(v) => Severity(alerts.leaf) = ThreeBands(v, Q(2, 1), Q(3, 1))
           /\ IsReal(b) => Severity(alerts.brix) = ThreeBands(b, Q(6, 1), Q(8, 1))

C5_Witness ==
    /\ Built
    /\ Mean(Column(plant_growth, "Leaf")) = Q(2, 1)
    /\ Severity(alerts.leaf) = "Warning"
    /\ Mean(Column(plant_harvest, "Brix")) = Q(8, 1)
    /\ Severity(alerts.brix) = "Normal"

Tiers == {"Critical", "Warning", "Normal"}

\* the colour each tier is drawn in
TierColor(tier) ==
    CASE tier = "Critical" -> "#dc3545" [] tier = "Warning" -> "#e0a800"
      [] tier = "Normal" -> "#28a745"

C6_OneTier ==
    (probe.n > 0 /\ IsReal(probe.value)) =>
        /\ probe.card.raised = ""
        /\ Severity(probe.card) \in Tiers
        /\ probe.card.color = TierColor(Severity(probe.card))
        /\ probe.card.value = probe.value

C6_SameAgain ==
    (probe.n > 0 /\ probe'.metric = probe.metric /\ probe'.value = probe.value)
        => Severity(probe'.card) = Severity(probe.card)

\* C6: for each of the six metrics and every real aggregate value the band logic
\* returns a card of exactly one tier of {Critical, Warning, Normal} without raising,
\* and evaluating the same value again gives the same tier.
C6_TotalAndDeterministic == []C6_OneTier /\ [][C6_SameAgain]_vars

C6_Witness ==
    /\ probe.n = 2
    /\ probe.metric = "light"
    /\ probe.value = Q(-1, 1)
    /\ Severity(probe.card) = "Critical"

----------------------------------------------------------------------------
(* Claims C7-C8: the Aggregator and the selection it is scoped to *)

\* the sum of the cells c of the rows idx of a frame, in tenths (the sample cells
\* are multiples of a tenth)
RECURSIVE SumTenths(_, _, _)
SumTenths(rows, idx, c) ==
    IF idx = {} THEN 0
    ELSE LET i == CHOOSE j \in idx : TRUE
         IN (rows[i][c].num * 10) \div rows[i][c].den + SumTenths(rows, idx \ {i}, c)

\* out is the date grouping of rows: one row per distinct date of rows, dates
\* ascending, each column the arithmetic mean of its values in the rows of that date
IsDateGrouping(out, rows, cols) ==
    /\ {out[k]["Date"] : k \in 1..Len(out)} = {rows[i]["Date"] : i \in 1..Len(rows)} \ {NaT}
    /\ \A k \in 1..(Len(out) - 1) : out[k]["Date"] < out[k + 1]["Date"]
    /\ \A k \in 1..Len(out) : \A c \in cols :
          LET idx == {i \in 1..Len(rows) :
                         rows[i]["Date"] = out[k]["Date"] /\ IsReal(rows[i][c])}
          IN IF idx = {} THEN IsNaN(out[k][c])
             ELSE /\ IsReal(out[k][c])
                  /\ out[k][c].num * Cardinality(idx) * 10
                       = SumTenths(rows, idx, c) * out[k][c].den

RowsOfPlant(p) ==
    LET idx == {i \in 1..Len(plant_growth) : plant_growth[i]["Plant"] = p}
    IN [k \in 1..Cardinality(idx) |->
           plant_growth[CHOOSE i \in idx : Cardinality({j \in idx : j < i}) = k - 1]]

\* C7: the summary has exactly one row per distinct date of the growth rows, in
\* ascending date order, and each numeric column is the arithmetic mean of that
\* column over the rows of that date; the same holds of the series of one plant over
\* the rows of that plant.
C7_Aggregator ==
    /\ plant_growth_summary # <<>>
          => IsDateGrouping(plant_growth_summary, plant_growth,
                            {"Level", "Height", "Width", "Leaf"})
    /\ series.selected_plant # ""
          => IsDateGrouping(series.df, FilterPlant(plant_growth, series.selected_plant),
                            GrowthMetrics)

C7_Witness ==
    /\ Len(plant_growth_summary) = 2
    /\ Len(plant_growth) = 3
    /\ plant_growth[1]["Date"] = 2
    /\ plant_growth[2]["Date"] = 1
    /\ plant_growth[3]["Date"] = 2
    /\ plant_growth[1]["Height"] # plant_growth[3]["Height"]
    /\ plant_growth_summary[2]["Height"] = Q(11, 2)
    /\ series.selected_plant = "1-A"
    /\ Len(series.df) = 2

\* C8: when a plant is selected, the series behind the charts is the date grouping of
\* the growth rows of that plant alone, and the charts show that series; when "all"
\* is selected it is the all-plants summary.
C8_SelectionScope ==
    series.selected_plant # "" =>
        /\ series.selected_plant = "all" => series.df = plant_growth_summary
        /\ series.selected_plant # "all"
              => IsDateGrouping(series.df, RowsOfPlant(series.selected_plant), GrowthMetrics)
        /\ callback_error = "" =>
              /\ view.height_fig.actual = [x |-> Column(series.df, "Date"),
                                           y |-> Column(series.df, "Height")]
              /\ view.width_fig.actual = [x |-> Column(series.df, "Date"),
                                          y |-> Column(series.df, "Width")]
              /\ view.leaf_fig.actual = [x |-> Column(series.df, "Date"),
                                         y |-> Column(series.df, "Leaf")]
              /\ view.height_fig.forecast.y[1] = series.df[Len(series.df)]["Height"]
              /\ series.selected_plant # "all" =>
                    \A m \in 1..3 :
                        view.individual_section.figures[m].actual
                            = [x |-> Column(series.df, "Date"),
                               y |-> Column(series.df, ColumnOfMetric[m])]

C8_Witness ==
    /\ series.selected_plant = "1-A"
    /\ callback_error = ""
    /\ pending = <<>>
    /\ selector = "1-A"
    /\ \E i, j \in 1..Len(plant_growth) :
          /\ plant_growth[i]["Plant"] = "1-A"
          /\ plant_growth[j]["Plant"] = "2-A"
          /\ plant_growth[i]["Date"] = plant_growth[j]["Date"]
          /\ plant_growth[i]["Height"] # plant_growth[j]["Height"]
    /\ view.individual_section # None

----------------------------------------------------------------------------
(* Claims C9-C10: the Projector *)

Projected == projection.input # "" /\ projection.raised = ""

\* C9: on a non-empty series extend_growth_data returns exactly `days` rows whose
\* dates start the day after the last date of the series and go up one day at a
\* time, so every projected date is after every date of the series.
C9_ProjectionDates ==
    Projected =>
        LET df == projection.df
            rows == projection.rows
        IN /\ Len(rows) = projection.days
           /\ Len(rows) > 0 => rows[1]["Date"] = df[Len(df)]["Date"] + 1
           /\ \A k \in 1..(Len(rows) - 1) : rows[k + 1]["Date"] = rows[k]["Date"] + 1
           /\ \A k \in 1..Len(rows) : \A i \in 1..Len(df) : rows[k]["Date"] > df[i]["Date"]

C9_Witness ==
    /\ Projected
    /\ projection.days = days_default
    /\ Len(projection.df) = 2
    /\ Len(projection.rows) = 10
    /\ projection.rows[10]["Date"] = projection.df[2]["Date"] + 10

\* a * m^k
RECURSIVE BigMulPow(_, _, _)
BigMulPow(a, m, k) == IF k = 0 THEN a ELSE BigMulPow(BigMulInt(a, m), m, k - 1)

\* C10: from a last observed value L >= 0, the k-th projected value is the previous
\* one times a factor in [0.99, 1.05] (growth rate 1.02 plus noise in [-0.03, 0.03]),
\* so it lies between L * 0.99^k and L * 1.05^k.
C10_ProjectionBounds ==
    (Projected /\ Len(projection.df) > 0) =>
        LET L == projection.df[Len(projection.df)][projection.column]
            value(k) == IF k = 0 THEN Exact(L) ELSE projection.rows[k][projection.column]
        IN (IsReal(L) /\ L.num >= 0) =>
              \A k \in 1..projection.days :
                  /\ value(k).den = L.den
                  /\ value(k).exp = k
                  /\ ~value(k).neg
                  /\ \E f \in 99..105 : value(k).num = BigMulInt(value(k - 1).num, f)
                  /\ BigLe(BigMulPow(BigOf(L.num), 99, k), value(k).num)
                  /\ BigLe(value(k).num, BigMulPow(BigOf(L.num), 105, k))

C10_Witness ==
    /\ Projected
    /\ projection.days = days_default
    /\ projection.column = "Height"
    /\ projection.df[Len(projection.df)]["Height"] = Q(7, 1)
    /\ BigLt(BigMulPow(BigOf(7), 99, 10), projection.rows[10]["Height"].num)
    /\ BigLt(projection.rows[10]["Height"].num, BigMulPow(BigOf(7), 105, 10))
    /\ projection.rows[1]["Height"].num = BigOf(7 * 99)

----------------------------------------------------------------------------
(* Claims C11-C13: empty series and missing dates *)

\* C11: extend_growth_data called on a series with zero rows ends in an error (the
\* index access raises IndexError) and returns no projection rows; it never
\* substitutes a default for the missing last value.
C11_EmptySeriesError ==
    (projection.input # "" /\ Len(projection.df) = 0) =>
        /\ projection.raised = "IndexError"
        /\ projection.rows = <<>>

C11_Witness ==
    /\ projection.input = "all"
    /\ Len(plant_growth) > 0
    /\ plant_growth_summary = <<>>
    /\ projection.days = days_default
    /\ projection.raised = "IndexError"
    /\ projection.rows = <<>>


\* the column behind each alert that is a mean of a dataset column
AlertColumn ==
    [yield |-> Column(plant_harvest, "Yield"),
     ph |-> Column(unit_measurements, "pH"),
     light |-> Column(sun_data, "HoursOfDaylight"),
     leaf |-> Column(plant_growth, "Leaf"),
     brix |-> Column(plant_harvest, "Brix")]

\* C12: when the dataset behind an alert has no row with a value for the metric,
\* computing the mean ends in an error: no card with a severity tier is built from
\* the undefined mean.
C12_MeanOfNoValuesIsError ==
    Built =>
        \A m \in DOMAIN AlertColumn :
            SelectSeq(AlertColumn[m], IsPresent) = <<>> =>
                /\ alerts[m].raised # ""
                /\ Severity(alerts[m]) = "none"


\* the rows of a frame whose date parsed
Dated(rows) == SelectSeq(rows, LAMBDA r : r["Date"] # NaT)

\* out is built from the dated rows alone and has no row for the missing date
SkipsMissingDates(out, rows, cols) ==
    /\ \A k \in 1..Len(out) : out[k]["Date"] # NaT
    /\ Len(out) = Cardinality({rows[i]["Date"] : i \in 1..Len(rows)} \ {NaT})
    /\ IsDateGrouping(out, Dated(rows), cols)

\* C13: a growth date that does not parse is the missing date NaT, and the
\* date-grouped summary, of all plants or of one selected plant, is built without an
\* error from the rows that have a date: rows with a missing date are in no group,
\* and a plant with no dated row has an empty series.
C13_MissingDatesSkipped ==
    /\ \A i \in 1..Len(plant_growth) :
          plant_growth[i]["Date"] = NaT \/ plant_growth[i]["Date"] >= 1
    /\ plant_growth_summary # <<>>
          => SkipsMissingDates(plant_growth_summary, plant_growth,
                               {"Level", "Height", "Width", "Leaf"})
    /\ series.selected_plant # ""
          => /\ SkipsMissingDates(series.df, RowsOfPlant(series.selected_plant),
                                  GrowthMetrics)
             /\ Dated(RowsOfPlant(series.selected_plant)) = <<>> => series.df = <<>>

C13_Witness ==
    /\ Len(plant_growth) = 3
    /\ plant_growth[1]["Date"] = 1
    /\ plant_growth[2]["Date"] = NaT
    /\ plant_growth[3]["Date"] = 1
    /\ plant_growth[2]["Plant"] = "2-A"
    /\ plant_growth[2]["Height"] # plant_growth[1]["Height"]
    /\ plant_growth[3]["Height"] = plant_growth[1]["Height"]
    /\ Len(plant_growth_summary) = 1
    /\ plant_growth_summary[1]["Height"] = plant_growth[1]["Height"]
    /\ series.selected_plant = "2-A"
    /\ series.df = <<>>


----------------------------------------------------------------------------
(* Claims C14-C17: cleaning and loading at startup *)

HasPlantColumn(df) == df # <<>> /\ "Plant" \in DOMAIN df[1]

\* C14: the plant identifier of a row is its level, "-" and its side; a growth row
\* and a harvest row with equal level and side have the same identifier, and rows
\* with the same identifier have the same level and side.
C14_PlantIdentifier ==
    (HasPlantColumn(plant_growth) /\ HasPlantColumn(plant_harvest)) =>
        LET rows == {plant_growth[i] : i \in 1..Len(plant_growth)}
                       \cup {plant_harvest[i] : i \in 1..Len(plant_harvest)}
            whole == {r \in rows : IsReal(r["Level"]) /\ r["Level"].den = 1}
            id(r) == <<r["Level"], r["Side"], r["Plant"]>>
        IN /\ \A r \in whole : r["Plant"] = AsStr(r["Level"].num) \o "-" \o r["Side"]
           /\ \A g \in 1..Len(plant_growth) : \A h \in 1..Len(plant_harvest) :
                 (/\ IsReal(plant_growth[g]["Level"])
                  /\ plant_growth[g]["Level"] = plant_harvest[h]["Level"]
                  /\ plant_growth[g]["Side"] = plant_harvest[h]["Side"])
                    => plant_growth[g]["Plant"] = plant_harvest[h]["Plant"]
           /\ \A r1, r2 \in {id(r) : r \in whole} :
                 r1[3] = r2[3] => (r1[1] = r2[1] /\ r1[2] = r2[2])


\* C15: lines 51-52 turn a clock string "HH:MM:SS" into the decimal hours
\* HH + MM/60 + SS/3600 ("06:30:00" becomes 6.5), for every row of the sun data.
C15_DecimalHours ==
    [][(startup.pc = "daylight" /\ startup'.pc = "chart_view") =>
          /\ Len(sun_data') = Len(sun_data)
          /\ \A i \in 1..Len(sun_data) :
                LET hms == sun_data[i].HoursOfDaylight
                IN /\ sun_data'[i].HoursOfDaylight
                        = Add(Add(Q(hms[1], 1), Norm(Q(hms[2], 60))), Norm(Q(hms[3], 3600)))
                   /\ hms = <<6, 30, 0>> => sun_data'[i].HoursOfDaylight = Q(13, 2)]_vars

C15_Witness ==
    /\ startup.pc = "chart_view"
    /\ Len(sun_data) = 5
    /\ sun_data[1].HoursOfDaylight = Q(13, 2)
    /\ sun_data[2].HoursOfDaylight = Q(1, 120)
    /\ sun_data[3].HoursOfDaylight = Q(25, 1)
    /\ sun_data[4].HoursOfDaylight = Q(49, 4)


\* the steps of the module-level code after line 55
AfterChartView ==
    {"summary", "parameters", "charts", "projections", "heatmaps", "layout", "serving"}

ChartViewBuilt ==
    startup.pc \in AfterChartView \/ (startup.pc = "crashed" /\ startup.at \in AfterChartView)

AllPresent(r) == \A c \in {"Depth", "pH", "EC", "PPM", "Temperature"} : IsReal(r[c])

\* the charting view holds the complete rows of the raw measurements, in their order
C16_ChartRows ==
    ChartViewBuilt =>
        LET kept == {i \in 1..Len(unit_measurements) : AllPresent(unit_measurements[i])}
        IN /\ Len(unit_measurements_chart) = Cardinality(kept)
           /\ \A k \in 1..Len(unit_measurements_chart) :
                 \E i \in kept :
                     /\ unit_measurements_chart[k] = unit_measurements[i]
                     /\ Cardinality({j \in kept : j < i}) = k - 1
           /\ Built => alerts.ph.value = Mean(Column(unit_measurements, "pH"))

\* building the view (line 55) does not touch the raw measurements
C16_RawKept == startup.pc = "chart_view" => unit_measurements' = unit_measurements

\* C16: the charting view has exactly the measurement rows with a value for Depth,
\* pH, EC, PPM and Temperature, and building it leaves the raw measurements as they
\* were: a row missing only EC is not in the view, is still in the raw dataset, and
\* still counts in the mean of the pH alert.
C16_ChartingView == []C16_ChartRows /\ [][C16_RawKept]_vars

C16_Witness ==
    /\ startup.pc = "serving"
    /\ Len(unit_measurements) = 3
    /\ IsNA(unit_measurements[2]["EC"])
    /\ unit_measurements[2]["pH"] = Q(79, 10)
    /\ unit_measurements_chart = <<unit_measurements[1]>>
    /\ alerts.ph.value = Q(139, 20)
    /\ Severity(alerts.ph) = "Critical"


\* the datasets whose request failed: a network error or a status other than 200
FailedFetches ==
    {e \in DOMAIN responses : responses[e].raised # "" \/ responses[e].status_code # 200}

DatasetOf ==
    [unit_parameters |-> unit_parameters, sun_data |-> sun_data,
     unit_measurements |-> unit_measurements, plant_growth |-> plant_growth,
     plant_harvest |-> plant_harvest]

\* C17: when the request of one dataset fails, the other four datasets are still
\* loaded and the module-level code still runs to the end for them: the loading does
\* not stop at the failure, and cleaning, aggregation and alerts of the unaffected
\* datasets complete.
C17_FailSoftLoading ==
    (startup.pc \in {"serving", "crashed"} /\ Cardinality(FailedFetches) = 1) =>
        /\ \A e \in DOMAIN responses \ FailedFetches : Len(DatasetOf[e]) = Len(responses[e].rows)
        /\ startup.pc = "serving"
        /\ startup.raised = ""
        /\ "plant_growth" \notin FailedFetches => Len(plant_growth_summary) > 0
        /\ \A m \in {"ph", "ec"} :
              "unit_measurements" \notin FailedFetches => Severity(alerts[m]) # "none"


----------------------------------------------------------------------------
(* Claims C18-C20: the callbacks *)

\* no step of a callback writes a dataset, and none runs the loading again
C18_NoWrite ==
    /\ plant_growth' = plant_growth
    /\ plant_growth_summary' = plant_growth_summary
    /\ plant_harvest' = plant_harvest
    /\ unit_measurements' = unit_measurements
    /\ unit_measurements_chart' = unit_measurements_chart
    /\ sun_data' = sun_data
    /\ unit_parameters' = unit_parameters
    /\ responses' = responses
    /\ startup' = startup

\* the summary is the one startup derived from the growth rows
C18_AsLoaded ==
    /\ startup = Serving
    /\ plant_growth_summary = SummaryOf(plant_growth)

\* C18: after startup the loaded data is read-only: whatever the order in which
\* selections, tab changes and the runs of the two callbacks interleave, no step
\* fetches again or changes plant_growth, plant_growth_summary or plant_harvest (or
\* any other dataset), so the datasets stay those of startup.
C18_ReadOnlyData == []C18_AsLoaded /\ [][C18_NoWrite]_vars

C18_Witness ==
    /\ series.selected_plant \notin {"", "all"}
    /\ callback_error = ""
    /\ view.individual_section # None
    /\ Len(pending) = 2
    /\ pending[1].cb = "reset"
    /\ pending[2].cb = "update"
    /\ Len(FilterPlant(plant_growth, series.selected_plant)) < Len(plant_growth)
    /\ plant_growth_summary = SummaryOf(plant_growth)


\* C19: after every run of update_growth_and_layout exactly one of the two views is
\* visible: for "all" the summary and all-plants sections are shown ("block"), the
\* individual section is hidden ("none") and empty and there are no info cards; for
\* any other selection the summary and all-plants sections are hidden and the
\* individual section is shown with its charts.
C19_OneViewVisible ==
    series.selected_plant # "" =>
        /\ IF series.selected_plant = "all"
           THEN /\ view.summary_style.display = "block"
                /\ view.all_plants_style.display = "block"
                /\ view.individual_style.display = "none"
                /\ view.individual_section = None
                /\ view.info_cards = None
           ELSE /\ view.summary_style.display = "none"
                /\ view.all_plants_style.display = "none"
                /\ view.individual_style.display = "block"
                /\ view.individual_section # None
        /\ (view.summary_style.display = "block") # (view.individual_style.display = "block")


\* a step that runs the reset callback at the head of the queue
C20_ResetRuns ==
    /\ pending # <<>>
    /\ Head(pending).cb = "reset"
    /\ Len(pending') <= Len(pending)

C20_ResetStep ==
    C20_ResetRuns =>
        IF Head(pending).active_tab # "plant-growth-harvest"
              /\ Head(pending).current_value # "all"
        THEN /\ selector' = "all"
             /\ pending' = Append(Tail(pending), [cb |-> "update", selected_plant |-> "all"])
        ELSE /\ selector' = selector
             /\ pending' = Tail(pending)

\* prevent_initial_call: no reset is pending when the page has loaded
C20_NotOnLoad == \A i \in 1..Len(pending) : pending[i].cb # "reset"

\* a reset is queued only by a change of tab, for the tab changed to
C20_QueuedByTabChange ==
    (Len(pending') > Len(pending) /\ pending'[Len(pending')].cb = "reset") =>
        /\ tab' # tab
        /\ pending'[Len(pending')].active_tab = tab'
        /\ pending'[Len(pending')].current_value = selector

\* C20: reset_dropdown_on_tab_change sets the plant selector to "all" exactly when
\* the newly active tab is not "plant-growth-harvest" and the selection it was given
\* is not "all"; otherwise it raises PreventUpdate and the selector keeps its value.
\* It is not called on page load.
C20_ResetOnTabChange == C20_NotOnLoad /\ [][C20_ResetStep /\ C20_QueuedByTabChange]_vars

C20_Witness ==
    /\ tab = "insights"
    /\ selector = "all"
    /\ series.selected_plant = "1-A"
    /\ pending = <<[cb |-> "update", selected_plant |-> "all"]>>
    /\ view.individual_style.display = "block"


----------------------------------------------------------------------------
(* Claims C21-C27: selection and tabs, info cards, alerts, charts *)

\* no reset callback is waiting to run
NoResetPending == \A i \in 1..Len(pending) : pending[i].cb # "reset"

\* the all-plants view is the one on the page
AllPlantsViewVisible ==
    /\ view.summary_style.display = "block"
    /\ view.all_plants_style.display = "block"
    /\ view.individual_style.display = "none"
    /\ view.individual_section = None
    /\ view.info_cards = None

\* C21: from the initial state (tab "environmental-conditions", selector "all"),
\* after any tab switches and plant selections: once the reset callbacks have run,
\* a tab other than "plant-growth-harvest" has the selector at "all", and once all
\* callbacks have run a selector at "all" (so every such tab, and the Plant Growth
\* tab on returning to it) shows the all-plants view.
C21_SelectionLeftBehind ==
    /\ (tab # "plant-growth-harvest" /\ NoResetPending) => selector = "all"
    /\ (pending = <<>> /\ selector = "all") => AllPlantsViewVisible
    /\ (pending = <<>> /\ tab # "plant-growth-harvest") => AllPlantsViewVisible

\* the user has left the Plant Growth tab for the first tab with a plant's charts on
\* the page: the reset has run and put the selector back, and the update it triggers
\* is the only callback left
C21_Witness ==
    /\ tab = "environmental-conditions"
    /\ NoResetPending
    /\ selector = "all"
    /\ series.selected_plant # "all"
    /\ view.individual_section # None
    /\ ~AllPlantsViewVisible
    /\ pending = <<[cb |-> "update", selected_plant |-> "all"]>>


\* C22: for every plant identifier the selector offers (every distinct Plant value of
\* the growth dataset), the run of update_growth_and_layout for it completes without
\* error: the plant's date-grouped series is not empty, so every projection has a
\* last value and a last date to start from.
C22_OfferedPlantCompletes ==
    (series.selected_plant \in SelectorOptions \ {"all"}) =>
        /\ callback_error = ""
        /\ Len(series.df) > 0
        /\ MaxDate(series.df) # NaT


\* the rows of the harvest dataset for the plant of the last run
HarvestOf(p) == FilterPlant(plant_harvest, p)

\* the cards show the values of the row r
CardsShow(cards, r) ==
    /\ cards.kind = "Cards"
    /\ cards.yield = r["Yield"]
    /\ cards.roots = r["Roots"]
    /\ cards.brix = r["Brix"]
    /\ cards.date = to_datetime(r["Date"])

\* a row of the greatest date among the rows
IsMostRecent(r, rows) ==
    /\ to_datetime(r["Date"]) # NaT
    /\ \A i \in 1..Len(rows) : to_datetime(rows[i]["Date"]) <= to_datetime(r["Date"])

\* C23: after a run of update_growth_and_layout for a plant: when the harvest dataset
\* has a row for the plant, the run returned and the info cards show yield, root
\* length, Brix and date of a row of the greatest Date among the plant's rows; when
\* it has none, the run returned and the cards are replaced by the message "No
\* harvest data available for this plant."
C23_LatestHarvestCards ==
    (series.selected_plant \notin {"", "all"} /\ Len(series.df) > 0) =>
        LET rows == HarvestOf(series.selected_plant)
        IN /\ callback_error = ""
           /\ IF Len(rows) > 0
              THEN \E i \in 1..Len(rows) :
                      /\ IsMostRecent(rows[i], rows)
                      /\ CardsShow(view.info_cards, rows[i])
              ELSE view.info_cards =
                      [kind |-> "Div", text |-> "No harvest data available for this plant."]


\* the mean a live EC alert would classify
LiveEc == Mean(Column(unit_measurements, "EC"))

\* C24: the EC alert does not depend on the loaded data: whatever the measurements
\* dataset (and every other input), the card is the same one, "EC: Critical" with the
\* too-high message for the fixed value 3.33; so any two datasets give the same
\* severity and message.
C24_EcAlertFixed ==
    alerts # NoAlerts =>
        /\ alerts.ec.raised = ""
        /\ alerts.ec.title = "EC: Critical"
        /\ Severity(alerts.ec) = "Critical"
        /\ alerts.ec.value = Q(333, 100)
        /\ alerts.ec.message_top =
              "Electrical conductivity is too high. Target range is 1.0-2.0 S/m. Current: {:.2f}."
        /\ alerts.ec.message_bottom =
              "Dilute with fresh water or flush the system to reduce salt buildup."
        /\ alerts.ec.color = "#dc3545"

\* the alerts are built on a dataset whose mean EC is inside the optimal range
C24_Witness ==
    /\ alerts # NoAlerts
    /\ Len(unit_measurements) = 2
    /\ unit_measurements[1]["EC"] # unit_measurements[2]["EC"]
    /\ Ge(LiveEc, Q(1, 1)) /\ Le(LiveEc, Q(2, 1))
    /\ Severity(alerts.ec) = "Critical"


\* the cards on the page are the six the layout evaluated on the loaded data
C25_AsAtStartup == alerts # NoAlerts /\ alerts = AlertCenter

\* no selection, tab change or callback run touches a card
C25_NoReevaluation ==
    \A m \in Metrics :
        /\ alerts'[m] = alerts[m]
        /\ Severity(alerts'[m]) = Severity(alerts[m])
        /\ alerts'[m].message_top = alerts[m].message_top
        /\ alerts'[m].value = alerts[m].value

\* C25: the six alert cards are evaluated once, for the layout built at process
\* start, and no user interaction evaluates them again: through every sequence of
\* plant selections and tab switches each card's severity tier and message stay the
\* ones computed at startup.
C25_AlertsEvaluatedOnce == []C25_AsAtStartup /\ [][C25_NoReevaluation]_vars

\* a plant has been selected and its charts drawn, the user has moved to the Insights
\* tab, and the leaf-size alert still shows the tier of all plants although the
\* selected plant's own leaf mean lies in another tier
C25_Witness ==
    /\ tab = "insights"
    /\ series.selected_plant \notin {"", "all"}
    /\ callback_error = ""
    /\ view.individual_section # None
    /\ Severity(leaf_size_insight(
           Mean(Column(FilterPlant(plant_growth, series.selected_plant), "Leaf"))))
         # Severity(alerts.leaf)
    /\ alerts.leaf = get_leaf_size_insight


\* the figure fig drawn from the series df and the projection proj of column col: the
\* forecast trace is the last actual row followed by the projected rows in order, and
\* the actual trace is the series as it was passed in
ForecastJoins(fig, df, proj, col) ==
    /\ fig.kind = "Figure"
    /\ Len(fig.forecast.x) = Len(proj) + 1
    /\ Len(fig.forecast.y) = Len(proj) + 1
    /\ fig.forecast.x[1] = df[Len(df)]["Date"]
    /\ fig.forecast.y[1] = df[Len(df)][col]
    /\ \A k \in 1..Len(proj) :
          /\ fig.forecast.x[k + 1] = proj[k]["Date"]
          /\ fig.forecast.y[k + 1] = proj[k][col]
    /\ fig.actual.x = [i \in 1..Len(df) |-> df[i]["Date"]]
    /\ fig.actual.y = [i \in 1..Len(df) |-> df[i][col]]

\* the projection a run of the callback draws for its chart number m, when the
\* generator has made `drawn` draws since the run began
ProjectionOfRun(df, m, drawn) ==
    extend_growth_data(df, ColumnOfMetric[m], days_default, growth_rate_default,
                       noise_factor_default, Advance(rng, drawn)).rows

\* a run of update_growth_and_layout that returned
C26_RunReturned ==
    /\ pending # <<>>
    /\ Head(pending).cb = "update"
    /\ pending' = Tail(pending)
    /\ callback_error' = ""

C26_ChartsOfRun ==
    C26_RunReturned =>
        LET p == Head(pending).selected_plant
            df == IF p = "all" THEN plant_growth_summary ELSE PlantSeries(plant_growth, p)
            used == IF p = "all" THEN 0 ELSE 3 * days_default
            figs == <<view'.height_fig, view'.width_fig, view'.leaf_fig>>
        IN /\ series'.df = df
           /\ plant_growth_summary' = plant_growth_summary
           /\ plant_growth' = plant_growth
           /\ \A m \in 1..3 :
                 /\ Len(ProjectionOfRun(df, m, used + (m - 1) * days_default)) = days_default
                 /\ ForecastJoins(figs[m], df,
                                  ProjectionOfRun(df, m, used + (m - 1) * days_default),
                                  ColumnOfMetric[m])
           /\ p # "all" =>
                 \A m \in 1..3 :
                    ForecastJoins(view'.individual_section.figures[m], df,
                                  ProjectionOfRun(df, m, (m - 1) * days_default),
                                  ColumnOfMetric[m])

\* every chart on the page has a forecast trace of horizon + 1 points
C26_ElevenPoints ==
    (view.height_fig # None) =>
        /\ \A f \in {"height_fig", "width_fig", "leaf_fig"} :
              Len(view[f].forecast.x) = days_default + 1
        /\ view.individual_section # None =>
              \A m \in 1..3 :
                 Len(view.individual_section.figures[m].forecast.x) = days_default + 1

\* C26: in every projection chart the forecast trace is continuous with the actual
\* data: it has horizon + 1 points, the first is the date and value of the last
\* actual row, the others are the projected rows in order, and the actual trace is
\* the series passed in, unmodified.
C26_ForecastContinuous == []C26_ElevenPoints /\ [][C26_ChartsOfRun]_vars

\* a plant with measurements on two days has been selected: its height chart's
\* forecast starts on the second day at the measured height and goes on from there
C26_Witness ==
    /\ callback_error = ""
    /\ series.selected_plant \notin {"", "all"}
    /\ Len(series.df) = 2
    /\ view.individual_section # None
    /\ LET fig == view.individual_section.figures[1]
       IN /\ Len(fig.forecast.x) = 11
          /\ Len(fig.actual.x) = 2
          /\ fig.forecast.x[1] = fig.actual.x[2]
          /\ fig.forecast.y[1] = fig.actual.y[2]
          /\ fig.forecast.x[2] = fig.actual.x[2] + 1
          /\ fig.forecast.y[2] # fig.forecast.y[1]


\* the module-level code has come to the call of create_sunlight_chart (line 191)
SunlightChartCalled ==
    \/ startup.pc \in {"projections", "heatmaps", "layout", "serving"}
    \/ startup.pc = "crashed" /\ startup.at \in {"charts", "projections", "heatmaps", "layout"}

\* C27: for every sun dataset that is not empty, create_sunlight_chart completes and
\* puts the ticks of the x axis at only 5 dates, those of every (n div 5)-th row of
\* the n rows.
C27_FiveTicks ==
    (SunlightChartCalled /\ Len(sun_data) > 0) =>
        /\ startup.at # "charts"
        /\ Len(tickvals(sun_data, "Date")) = 5
        /\ \A k \in 1..5 :
              tickvals(sun_data, "Date")[k] = sun_data[(k - 1) * (Len(sun_data) \div 5) + 1]["Date"]

====
